---- MODULE Spec2Model ----
(***************************************************************************)
(* MoonLine: the mood journal and the chat with Luna (src/app.py) over     *)
(* the SQLite store (src/database.py).                                     *)
(*                                                                         *)
(* Text is a sequence of characters, each character a one-element string;  *)
(* a Cyrillic letter is written ru_x (small) or RU_X (capital), any other  *)
(* non-ASCII character U+<code point>.  str.lower(), str.strip() and the   *)
(* substring test `in` are operators on such sequences.                    *)
(***************************************************************************)
EXTENDS Integers, Sequences, FiniteSets, TLC

\* ------------------------------------------------------------------ bounds

\* The wall clock (CURRENT_TIMESTAMP, one-second steps) runs from 0 to MaxClock.
MaxClock == 1

\* At most MaxChatId rows are ever inserted into chat_messages.
MaxChatId == 3

\* At most MaxMoodId rows are ever inserted into mood_entries.
MaxMoodId == 1

\* The journals get_mood_stats is applied to hold at most MaxStatsRows entries.
MaxStatsRows == 3

\* ------------------------------------------------------------------- text

\* The letters str.lower() changes, among the characters the model uses:
\* Latin A-Z and Cyrillic (written RU_x for a capital, ru_x for a small letter).
UPPERCASE ==
    <<"A", "B", "C", "D", "E", "F", "G", "H", "I", "J", "K", "L", "M", "N", "O", "P", "Q", "R",
    "S", "T", "U", "V", "W", "X", "Y", "Z", "RU_A", "RU_B", "RU_V", "RU_G", "RU_D", "RU_E",
    "RU_YO", "RU_ZH", "RU_Z", "RU_I", "RU_J", "RU_K", "RU_L", "RU_M", "RU_N", "RU_O", "RU_P",
    "RU_R", "RU_S", "RU_T", "RU_U", "RU_F", "RU_H", "RU_C", "RU_CH", "RU_SH", "RU_SCH",
    "RU_HARD", "RU_Y", "RU_SOFT", "RU_EH", "RU_YU", "RU_YA">>

LOWERCASE ==
    <<"a", "b", "c", "d", "e", "f", "g", "h", "i", "j", "k", "l", "m", "n", "o", "p", "q", "r",
    "s", "t", "u", "v", "w", "x", "y", "z", "ru_a", "ru_b", "ru_v", "ru_g", "ru_d", "ru_e",
    "ru_yo", "ru_zh", "ru_z", "ru_i", "ru_j", "ru_k", "ru_l", "ru_m", "ru_n", "ru_o", "ru_p",
    "ru_r", "ru_s", "ru_t", "ru_u", "ru_f", "ru_h", "ru_c", "ru_ch", "ru_sh", "ru_sch",
    "ru_hard", "ru_y", "ru_soft", "ru_eh", "ru_yu", "ru_ya">>

\* app.py:433, the text returned by the greeting rule
RESPONSE_GREETING ==
    <<"RU_P", "ru_r", "ru_i", "ru_v", "ru_e", "ru_t", "!", " ", "U+1F319", " ", "RU_YA", " ",
    "L", "u", "n", "a", ",", " ", "ru_t", "ru_v", "ru_o", "ru_j", " ", "A", "I", "-", "ru_p",
    "ru_o", "ru_m", "ru_o", "ru_sch", "ru_n", "ru_i", "ru_k", ".", " ", "RU_R", "ru_a", "ru_d",
    "ru_a", " ", "ru_p", "ru_o", "ru_z", "ru_n", "ru_a", "ru_k", "ru_o", "ru_m", "ru_i",
    "ru_t", "ru_soft", "ru_s", "ru_ya", "!", " ", "RU_K", "ru_a", "ru_k", " ", "ru_t", "ru_y",
    " ", "ru_s", "ru_e", "ru_b", "ru_ya", " ", "ru_ch", "ru_u", "ru_v", "ru_s", "ru_t", "ru_v",
    "ru_u", "ru_e", "ru_sh", "ru_soft", " ", "ru_s", "ru_e", "ru_g", "ru_o", "ru_d", "ru_n",
    "ru_ya", "?">>

\* app.py:438, the text returned by the introduction rule
RESPONSE_INTRODUCTION ==
    <<"RU_P", "ru_r", "ru_i", "ru_ya", "ru_t", "ru_n", "ru_o", " ", "ru_p", "ru_o", "ru_z",
    "ru_n", "ru_a", "ru_k", "ru_o", "ru_m", "ru_i", "ru_t", "ru_soft", "ru_s", "ru_ya", "!",
    " ", "U+1F319", " ", "RU_K", "ru_a", "ru_k", " ", "ru_d", "ru_e", "ru_l", "ru_a", " ",
    "ru_s", "ru_e", "ru_g", "ru_o", "ru_d", "ru_n", "ru_ya", "?">>

\* app.py:442, the text returned by the negative mood rule
RESPONSE_NEGATIVE_MOOD ==
    <<"RU_M", "ru_n", "ru_e", " ", "ru_zh", "ru_a", "ru_l", "ru_soft", ",", " ", "ru_ch",
    "ru_t", "ru_o", " ", "ru_t", "ru_e", "ru_b", "ru_e", " ", "ru_s", "ru_e", "ru_j", "ru_ch",
    "ru_a", "ru_s", " ", "ru_t", "ru_ya", "ru_zh", "ru_e", "ru_l", "ru_o", " ", "U+1F49C", " ",
    "RU_Z", "ru_n", "ru_a", "ru_j", ",", " ", "ru_ch", "ru_t", "ru_o", " ", "ru_eh", "ru_t",
    "ru_o", " ", "ru_n", "ru_o", "ru_r", "ru_m", "ru_a", "ru_l", "ru_soft", "ru_n", "ru_o",
    " ", "U+2014", " ", "ru_i", "ru_n", "ru_o", "ru_g", "ru_d", "ru_a", " ", "ru_ch", "ru_u",
    "ru_v", "ru_s", "ru_t", "ru_v", "ru_o", "ru_v", "ru_a", "ru_t", "ru_soft", " ", "ru_s",
    "ru_e", "ru_b", "ru_ya", " ", "ru_n", "ru_e", " ", "ru_l", "ru_u", "ru_ch", "ru_sh",
    "ru_i", "ru_m", " ", "ru_o", "ru_b", "ru_r", "ru_a", "ru_z", "ru_o", "ru_m", ".", " ",
    "RU_H", "ru_o", "ru_ch", "ru_e", "ru_sh", "ru_soft", " ", "ru_p", "ru_o", "ru_g", "ru_o",
    "ru_v", "ru_o", "ru_r", "ru_i", "ru_t", "ru_soft", " ", "ru_o", " ", "ru_t", "ru_o",
    "ru_m", ",", " ", "ru_ch", "ru_t", "ru_o", " ", "ru_t", "ru_e", "ru_b", "ru_ya", " ",
    "ru_b", "ru_e", "ru_s", "ru_p", "ru_o", "ru_k", "ru_o", "ru_i", "ru_t", "?", " ", "RU_YA",
    " ", "ru_z", "ru_d", "ru_e", "ru_s", "ru_soft", ",", " ", "ru_ch", "ru_t", "ru_o", "ru_b",
    "ru_y", " ", "ru_v", "ru_y", "ru_s", "ru_l", "ru_u", "ru_sh", "ru_a", "ru_t", "ru_soft",
    ".">>

\* app.py:446, the text returned by the anxiety rule
RESPONSE_ANXIETY ==
    <<"RU_T", "ru_r", "ru_e", "ru_v", "ru_o", "ru_g", "ru_a", " ", "U+2014", " ", "ru_eh",
    "ru_t", "ru_o", " ", "ru_s", "ru_l", "ru_o", "ru_zh", "ru_n", "ru_o", "ru_e", " ", "ru_ch",
    "ru_u", "ru_v", "ru_s", "ru_t", "ru_v", "ru_o", ",", " ", "ru_n", "ru_o", " ", "ru_t",
    "ru_y", " ", "ru_n", "ru_e", " ", "ru_o", "ru_d", "ru_i", "ru_n", " ", "U+1F319", " ",
    "RU_P", "ru_o", "ru_p", "ru_r", "ru_o", "ru_b", "ru_u", "ru_j", " ", "ru_t", "ru_e",
    "ru_h", "ru_n", "ru_i", "ru_k", "ru_u", " ", "ru_d", "ru_y", "ru_h", "ru_a", "ru_n",
    "ru_i", "ru_ya", ":", " ", "ru_v", "ru_d", "ru_o", "ru_h", " ", "4", " ", "ru_s", "ru_e",
    "ru_k", "ru_u", "ru_n", "ru_d", "ru_y", ",", " ", "ru_z", "ru_a", "ru_d", "ru_e", "ru_r",
    "ru_zh", "ru_i", " ", "ru_n", "ru_a", " ", "7", ",", " ", "ru_v", "ru_y", "ru_d", "ru_o",
    "ru_h", " ", "8", " ", "ru_s", "ru_e", "ru_k", "ru_u", "ru_n", "ru_d", ".", " ", "RU_EH",
    "ru_t", "ru_o", " ", "ru_p", "ru_o", "ru_m", "ru_o", "ru_g", "ru_a", "ru_e", "ru_t", " ",
    "ru_u", "ru_s", "ru_p", "ru_o", "ru_k", "ru_o", "ru_i", "ru_t", "ru_soft", " ", "ru_n",
    "ru_e", "ru_r", "ru_v", "ru_n", "ru_u", "ru_yu", " ", "ru_s", "ru_i", "ru_s", "ru_t",
    "ru_e", "ru_m", "ru_u", ".", " ", "RU_H", "ru_o", "ru_ch", "ru_e", "ru_sh", "ru_soft", ",",
    " ", "ru_r", "ru_a", "ru_s", "ru_s", "ru_k", "ru_a", "ru_zh", "ru_u", " ", "ru_p", "ru_o",
    "ru_d", "ru_r", "ru_o", "ru_b", "ru_n", "ru_e", "ru_e", "?">>

\* app.py:450, the text returned by the stress rule
RESPONSE_STRESS ==
    <<"RU_S", "ru_t", "ru_r", "ru_e", "ru_s", "ru_s", " ", "ru_m", "ru_o", "ru_zh", "ru_e",
    "ru_t", " ", "ru_b", "ru_y", "ru_t", "ru_soft", " ", "ru_o", "ru_ch", "ru_e", "ru_n",
    "ru_soft", " ", "ru_i", "ru_z", "ru_m", "ru_a", "ru_t", "ru_y", "ru_v", "ru_a", "ru_yu",
    "ru_sch", "ru_i", "ru_m", " ", "U+1F49C", " ", "RU_D", "ru_a", "ru_v", "ru_a", "ru_j", " ",
    "ru_p", "ru_o", "ru_p", "ru_r", "ru_o", "ru_b", "ru_u", "ru_e", "ru_m", " ", "ru_n",
    "ru_a", "ru_j", "ru_t", "ru_i", " ", "ru_t", "ru_o", ",", " ", "ru_ch", "ru_t", "ru_o",
    " ", "ru_p", "ru_o", "ru_m", "ru_o", "ru_zh", "ru_e", "ru_t", " ", "ru_t", "ru_e", "ru_b",
    "ru_e", " ", "ru_r", "ru_a", "ru_s", "ru_s", "ru_l", "ru_a", "ru_b", "ru_i", "ru_t",
    "ru_soft", "ru_s", "ru_ya", ".", " ", "RU_K", "ru_o", "ru_g", "ru_d", "ru_a", " ", "ru_t",
    "ru_y", " ", "ru_p", "ru_o", "ru_s", "ru_l", "ru_e", "ru_d", "ru_n", "ru_i", "ru_j", " ",
    "ru_r", "ru_a", "ru_z", " ", "ru_d", "ru_e", "ru_l", "ru_a", "ru_l", " ", "ru_ch", "ru_t",
    "ru_o", "-", "ru_t", "ru_o", " ", "ru_p", "ru_r", "ru_i", "ru_ya", "ru_t", "ru_n", "ru_o",
    "ru_e", " ", "ru_t", "ru_o", "ru_l", "ru_soft", "ru_k", "ru_o", " ", "ru_d", "ru_l",
    "ru_ya", " ", "ru_s", "ru_e", "ru_b", "ru_ya", "?">>

\* app.py:454, the text returned by the positive mood rule
RESPONSE_POSITIVE_MOOD ==
    <<"RU_R", "ru_a", "ru_d", "ru_a", " ", "ru_eh", "ru_t", "ru_o", " ", "ru_s", "ru_l",
    "ru_y", "ru_sh", "ru_a", "ru_t", "ru_soft", "!", " ", "U+1F31F", " ", "RU_EH", "ru_t",
    "ru_o", " ", "ru_z", "ru_a", "ru_m", "ru_e", "ru_ch", "ru_a", "ru_t", "ru_e", "ru_l",
    "ru_soft", "ru_n", "ru_o", ",", " ", "ru_ch", "ru_t", "ru_o", " ", "ru_t", "ru_y", " ",
    "ru_ch", "ru_u", "ru_v", "ru_s", "ru_t", "ru_v", "ru_u", "ru_e", "ru_sh", "ru_soft", " ",
    "ru_s", "ru_e", "ru_b", "ru_ya", " ", "ru_h", "ru_o", "ru_r", "ru_o", "ru_sh", "ru_o", ".",
    " ", "RU_CH", "ru_t", "ru_o", " ", "ru_p", "ru_o", "ru_m", "ru_o", "ru_g", "ru_l", "ru_o",
    " ", "ru_t", "ru_e", "ru_b", "ru_e", " ", "ru_s", "ru_e", "ru_g", "ru_o", "ru_d", "ru_n",
    "ru_ya", " ", "ru_p", "ru_o", "ru_d", "ru_n", "ru_ya", "ru_t", "ru_soft", " ", "ru_n",
    "ru_a", "ru_s", "ru_t", "ru_r", "ru_o", "ru_e", "ru_n", "ru_i", "ru_e", "?">>

\* app.py:458, the text returned by the gratitude rule
RESPONSE_GRATITUDE ==
    <<"RU_V", "ru_s", "ru_e", "ru_g", "ru_d", "ru_a", " ", "ru_r", "ru_a", "ru_d", "ru_a", " ",
    "ru_p", "ru_o", "ru_m", "ru_o", "ru_ch", "ru_soft", "!", " ", "U+1F319", " ", "RU_P",
    "ru_o", "ru_m", "ru_n", "ru_i", ",", " ", "ru_ya", " ", "ru_z", "ru_d", "ru_e", "ru_s",
    "ru_soft", " ", "ru_d", "ru_l", "ru_ya", " ", "ru_t", "ru_e", "ru_b", "ru_ya", " ", "ru_v",
    " ", "ru_l", "ru_yu", "ru_b", "ru_o", "ru_e", " ", "ru_v", "ru_r", "ru_e", "ru_m", "ru_ya",
    ".", " ", "RU_N", "ru_e", " ", "ru_s", "ru_t", "ru_e", "ru_s", "ru_n", "ru_ya", "ru_j",
    "ru_s", "ru_ya", " ", "ru_p", "ru_i", "ru_s", "ru_a", "ru_t", "ru_soft", ".">>

\* app.py:462, the text returned by the identity rule
RESPONSE_IDENTITY ==
    <<"RU_YA", " ", "L", "u", "n", "a", " ", "U+2014", " ", "ru_t", "ru_v", "ru_o", "ru_j",
    " ", "A", "I", "-", "ru_k", "ru_o", "ru_m", "ru_p", "ru_a", "ru_n", "ru_soft", "ru_o",
    "ru_n", " ", "ru_p", "ru_o", " ", "ru_m", "ru_e", "ru_n", "ru_t", "ru_a", "ru_l",
    "ru_soft", "ru_n", "ru_o", "ru_m", "ru_u", " ", "ru_z", "ru_d", "ru_o", "ru_r", "ru_o",
    "ru_v", "ru_soft", "ru_yu", " ", "U+1F319", " ", "RU_YA", " ", "ru_z", "ru_d", "ru_e",
    "ru_s", "ru_soft", ",", " ", "ru_ch", "ru_t", "ru_o", "ru_b", "ru_y", " ", "ru_v", "ru_y",
    "ru_s", "ru_l", "ru_u", "ru_sh", "ru_a", "ru_t", "ru_soft", " ", "ru_t", "ru_e", "ru_b",
    "ru_ya", ",", " ", "ru_p", "ru_o", "ru_d", "ru_d", "ru_e", "ru_r", "ru_zh", "ru_a", "ru_t",
    "ru_soft", " ", "ru_i", " ", "ru_p", "ru_o", "ru_m", "ru_o", "ru_ch", "ru_soft", " ",
    "ru_n", "ru_a", "ru_j", "ru_t", "ru_i", " ", "ru_v", "ru_n", "ru_u", "ru_t", "ru_r",
    "ru_e", "ru_n", "ru_n", "ru_e", "ru_e", " ", "ru_s", "ru_p", "ru_o", "ru_k", "ru_o",
    "ru_j", "ru_s", "ru_t", "ru_v", "ru_i", "ru_e", ".", " ", "RU_T", "ru_y", " ", "ru_m",
    "ru_o", "ru_zh", "ru_e", "ru_sh", "ru_soft", " ", "ru_r", "ru_a", "ru_s", "ru_s", "ru_k",
    "ru_a", "ru_z", "ru_a", "ru_t", "ru_soft", " ", "ru_m", "ru_n", "ru_e", " ", "ru_v",
    "ru_s", "ru_yo", ",", " ", "ru_ch", "ru_t", "ru_o", " ", "ru_t", "ru_e", "ru_b", "ru_ya",
    " ", "ru_b", "ru_e", "ru_s", "ru_p", "ru_o", "ru_k", "ru_o", "ru_i", "ru_t", ".">>

\* app.py:466, the text returned by the sleep rule
RESPONSE_SLEEP ==
    <<"RU_P", "ru_r", "ru_o", "ru_b", "ru_l", "ru_e", "ru_m", "ru_y", " ", "ru_s", "ru_o", " ",
    "ru_s", "ru_n", "ru_o", "ru_m", " ", "ru_m", "ru_o", "ru_g", "ru_u", "ru_t", " ", "ru_s",
    "ru_i", "ru_l", "ru_soft", "ru_n", "ru_o", " ", "ru_v", "ru_l", "ru_i", "ru_ya", "ru_t",
    "ru_soft", " ", "ru_n", "ru_a", " ", "ru_s", "ru_a", "ru_m", "ru_o", "ru_ch", "ru_u",
    "ru_v", "ru_s", "ru_t", "ru_v", "ru_i", "ru_e", " ", "U+1F319", " ", "RU_P", "ru_o",
    "ru_p", "ru_r", "ru_o", "ru_b", "ru_u", "ru_j", ":", " ", "ru_z", "ru_a", " ", "ru_ch",
    "ru_a", "ru_s", " ", "ru_d", "ru_o", " ", "ru_s", "ru_n", "ru_a", " ", "ru_u", "ru_b",
    "ru_e", "ru_r", "ru_i", " ", "ru_t", "ru_e", "ru_l", "ru_e", "ru_f", "ru_o", "ru_n", ",",
    " ", "ru_s", "ru_d", "ru_e", "ru_l", "ru_a", "ru_j", " ", "ru_k", "ru_o", "ru_m", "ru_n",
    "ru_a", "ru_t", "ru_u", " ", "ru_p", "ru_r", "ru_o", "ru_h", "ru_l", "ru_a", "ru_d",
    "ru_n", "ru_o", "ru_j", " ", "ru_i", " ", "ru_t", "ru_yo", "ru_m", "ru_n", "ru_o", "ru_j",
    ",", " ", "ru_v", "ru_y", "ru_p", "ru_e", "ru_j", " ", "ru_t", "ru_yo", "ru_p", "ru_l",
    "ru_y", "ru_j", " ", "ru_ch", "ru_a", "ru_j", ".", " ", "RU_E", "ru_s", "ru_l", "ru_i",
    " ", "ru_m", "ru_y", "ru_s", "ru_l", "ru_i", " ", "ru_n", "ru_e", " ", "ru_o", "ru_t",
    "ru_p", "ru_u", "ru_s", "ru_k", "ru_a", "ru_yu", "ru_t", " ", "U+2014", " ", "ru_z",
    "ru_a", "ru_p", "ru_i", "ru_sh", "ru_i", " ", "ru_i", "ru_h", " ", "ru_v", " ", "ru_d",
    "ru_n", "ru_e", "ru_v", "ru_n", "ru_i", "ru_k", ".">>

\* app.py:470, the text returned by the loneliness rule
RESPONSE_LONELINESS ==
    <<"RU_CH", "ru_u", "ru_v", "ru_s", "ru_t", "ru_v", "ru_o", " ", "ru_o", "ru_d", "ru_i",
    "ru_n", "ru_o", "ru_ch", "ru_e", "ru_s", "ru_t", "ru_v", "ru_a", " ", "ru_m", "ru_o",
    "ru_zh", "ru_e", "ru_t", " ", "ru_b", "ru_y", "ru_t", "ru_soft", " ", "ru_o", "ru_ch",
    "ru_e", "ru_n", "ru_soft", " ", "ru_b", "ru_o", "ru_l", "ru_e", "ru_z", "ru_n", "ru_e",
    "ru_n", "ru_n", "ru_y", "ru_m", " ", "U+1F49C", " ", "RU_N", "ru_o", " ", "ru_z", "ru_n",
    "ru_a", "ru_j", " ", "U+2014", " ", "ru_t", "ru_y", " ", "ru_n", "ru_e", " ", "ru_o",
    "ru_d", "ru_i", "ru_n", ".", " ", "RU_YA", " ", "ru_v", "ru_s", "ru_e", "ru_g", "ru_d",
    "ru_a", " ", "ru_z", "ru_d", "ru_e", "ru_s", "ru_soft", ",", " ", "ru_ch", "ru_t", "ru_o",
    "ru_b", "ru_y", " ", "ru_p", "ru_o", "ru_g", "ru_o", "ru_v", "ru_o", "ru_r", "ru_i",
    "ru_t", "ru_soft", ".", " ", "RU_I", "ru_n", "ru_o", "ru_g", "ru_d", "ru_a", " ", "ru_p",
    "ru_o", "ru_m", "ru_o", "ru_g", "ru_a", "ru_e", "ru_t", " ", "ru_s", "ru_v", "ru_ya",
    "ru_z", "ru_a", "ru_t", "ru_soft", "ru_s", "ru_ya", " ", "ru_s", "ru_o", " ", "ru_s",
    "ru_t", "ru_a", "ru_r", "ru_y", "ru_m", " ", "ru_d", "ru_r", "ru_u", "ru_g", "ru_o",
    "ru_m", " ", "ru_i", "ru_l", "ru_i", " ", "ru_n", "ru_a", "ru_j", "ru_t", "ru_i", " ",
    "ru_s", "ru_o", "ru_o", "ru_b", "ru_sch", "ru_e", "ru_s", "ru_t", "ru_v", "ru_o", " ",
    "ru_p", "ru_o", " ", "ru_i", "ru_n", "ru_t", "ru_e", "ru_r", "ru_e", "ru_s", "ru_a",
    "ru_m", ".">>

\* app.py:474, the text returned by the work study rule
RESPONSE_WORK_STUDY ==
    <<"RU_D", "ru_a", "ru_v", "ru_l", "ru_e", "ru_n", "ru_i", "ru_e", " ", "ru_o", "ru_t", " ",
    "ru_r", "ru_a", "ru_b", "ru_o", "ru_t", "ru_y", " ", "ru_i", "ru_l", "ru_i", " ", "ru_u",
    "ru_ch", "ru_yo", "ru_b", "ru_y", " ", "U+2014", " ", "ru_eh", "ru_t", "ru_o", " ", "ru_r",
    "ru_e", "ru_a", "ru_l", "ru_soft", "ru_n", "ru_o", " ", "ru_t", "ru_ya", "ru_zh", "ru_e",
    "ru_l", "ru_o", " ", "U+1F4DA", " ", "RU_P", "ru_o", "ru_p", "ru_r", "ru_o", "ru_b",
    "ru_u", "ru_j", " ", "ru_r", "ru_a", "ru_z", "ru_b", "ru_i", "ru_t", "ru_soft", " ",
    "ru_b", "ru_o", "ru_l", "ru_soft", "ru_sh", "ru_i", "ru_e", " ", "ru_z", "ru_a", "ru_d",
    "ru_a", "ru_ch", "ru_i", " ", "ru_n", "ru_a", " ", "ru_m", "ru_a", "ru_l", "ru_e", "ru_n",
    "ru_soft", "ru_k", "ru_i", "ru_e", " ", "ru_sh", "ru_a", "ru_g", "ru_i", ".", " ", "RU_I",
    " ", "ru_n", "ru_e", " ", "ru_z", "ru_a", "ru_b", "ru_y", "ru_v", "ru_a", "ru_j", " ",
    "ru_d", "ru_e", "ru_l", "ru_a", "ru_t", "ru_soft", " ", "ru_p", "ru_e", "ru_r", "ru_e",
    "ru_r", "ru_y", "ru_v", "ru_y", " ", "U+2014", " ", "ru_m", "ru_o", "ru_z", "ru_g", "ru_u",
    " ", "ru_n", "ru_u", "ru_zh", "ru_e", "ru_n", " ", "ru_o", "ru_t", "ru_d", "ru_y", "ru_h",
    "!">>

\* app.py:478, the text returned by the motivation rule
RESPONSE_MOTIVATION ==
    <<"RU_P", "ru_o", "ru_t", "ru_e", "ru_r", "ru_ya", " ", "ru_m", "ru_o", "ru_t", "ru_i",
    "ru_v", "ru_a", "ru_c", "ru_i", "ru_i", " ", "U+2014", " ", "ru_s", "ru_i", "ru_g", "ru_n",
    "ru_a", "ru_l", ",", " ", "ru_ch", "ru_t", "ru_o", " ", "ru_t", "ru_e", "ru_b", "ru_e",
    " ", "ru_n", "ru_u", "ru_zh", "ru_e", "ru_n", " ", "ru_o", "ru_t", "ru_d", "ru_y", "ru_h",
    " ", "ru_i", "ru_l", "ru_i", " ", "ru_p", "ru_e", "ru_r", "ru_e", "ru_z", "ru_a", "ru_g",
    "ru_r", "ru_u", "ru_z", "ru_k", "ru_a", " ", "U+1F49C", " ", "RU_N", "ru_a", "ru_ch",
    "ru_n", "ru_i", " ", "ru_s", " ", "ru_ch", "ru_e", "ru_g", "ru_o", "-", "ru_t", "ru_o",
    " ", "ru_m", "ru_a", "ru_l", "ru_e", "ru_n", "ru_soft", "ru_k", "ru_o", "ru_g", "ru_o",
    ".", " ", "RU_K", "ru_a", "ru_k", "ru_o", "ru_e", " ", "ru_s", "ru_a", "ru_m", "ru_o",
    "ru_e", " ", "ru_p", "ru_r", "ru_o", "ru_s", "ru_t", "ru_o", "ru_e", " ", "ru_d", "ru_e",
    "ru_l", "ru_o", " ", "ru_t", "ru_y", " ", "ru_m", "ru_o", "ru_zh", "ru_e", "ru_sh",
    "ru_soft", " ", "ru_s", "ru_d", "ru_e", "ru_l", "ru_a", "ru_t", "ru_soft", " ", "ru_p",
    "ru_r", "ru_ya", "ru_m", "ru_o", " ", "ru_s", "ru_e", "ru_j", "ru_ch", "ru_a", "ru_s",
    "?">>

\* app.py:482, the text returned by the help rule
RESPONSE_HELP ==
    <<"RU_YA", " ", "ru_r", "ru_a", "ru_d", "ru_a", ",", " ", "ru_ch", "ru_t", "ru_o", " ",
    "ru_t", "ru_y", " ", "ru_o", "ru_b", "ru_r", "ru_a", "ru_t", "ru_i", "ru_l", "ru_s",
    "ru_ya", " ", "ru_z", "ru_a", " ", "ru_p", "ru_o", "ru_m", "ru_o", "ru_sch", "ru_soft",
    "ru_yu", " ", "U+1F319", " ", "RU_R", "ru_a", "ru_s", "ru_s", "ru_k", "ru_a", "ru_zh",
    "ru_i", " ", "ru_p", "ru_o", "ru_d", "ru_r", "ru_o", "ru_b", "ru_n", "ru_e", "ru_e", ",",
    " ", "ru_ch", "ru_t", "ru_o", " ", "ru_t", "ru_e", "ru_b", "ru_ya", " ", "ru_b", "ru_e",
    "ru_s", "ru_p", "ru_o", "ru_k", "ru_o", "ru_i", "ru_t", "?", " ", "RU_V", "ru_m", "ru_e",
    "ru_s", "ru_t", "ru_e", " ", "ru_m", "ru_y", " ", "ru_n", "ru_a", "ru_j", "ru_d", "ru_yo",
    "ru_m", " ", "ru_s", "ru_p", "ru_o", "ru_s", "ru_o", "ru_b", " ", "ru_s", "ru_p", "ru_r",
    "ru_a", "ru_v", "ru_i", "ru_t", "ru_soft", "ru_s", "ru_ya", ".">>

\* app.py:485, the text returned when no rule matches
RESPONSE_DEFAULT ==
    <<"RU_S", "ru_p", "ru_a", "ru_s", "ru_i", "ru_b", "ru_o", ",", " ", "ru_ch", "ru_t",
    "ru_o", " ", "ru_d", "ru_e", "ru_l", "ru_i", "ru_sh", "ru_soft", "ru_s", "ru_ya", " ",
    "ru_s", "ru_o", " ", "ru_m", "ru_n", "ru_o", "ru_j", " ", "U+1F49C", " ", "RU_R", "ru_a",
    "ru_s", "ru_s", "ru_k", "ru_a", "ru_zh", "ru_i", " ", "ru_p", "ru_o", "ru_d", "ru_r",
    "ru_o", "ru_b", "ru_n", "ru_e", "ru_e", ",", " ", "ru_ya", " ", "ru_v", "ru_n", "ru_i",
    "ru_m", "ru_a", "ru_t", "ru_e", "ru_l", "ru_soft", "ru_n", "ru_o", " ", "ru_s", "ru_l",
    "ru_u", "ru_sh", "ru_a", "ru_yu", ".", " ", "RU_CH", "ru_t", "ru_o", " ", "ru_t", "ru_y",
    " ", "ru_s", "ru_e", "ru_j", "ru_ch", "ru_a", "ru_s", " ", "ru_ch", "ru_u", "ru_v", "ru_s",
    "ru_t", "ru_v", "ru_u", "ru_e", "ru_sh", "ru_soft", "?">>

\* app.py:432, the words of the greeting rule
WORDS_GREETING ==
    <<
       <<"ru_p", "ru_r", "ru_i", "ru_v", "ru_e", "ru_t">>,
       <<"h", "i">>,
       <<"h", "e", "l", "l", "o">>,
       <<"ru_z", "ru_d", "ru_r", "ru_a", "ru_v", "ru_s", "ru_t", "ru_v", "ru_u", "ru_j">>,
       <<"ru_z", "ru_d", "ru_a", "ru_r", "ru_o", "ru_v", "ru_a">>,
       <<"ru_p", "ru_r", "ru_i", "ru_v", "ru_e", "ru_t", "ru_i", "ru_k">>,
       <<"ru_h", "ru_a", "ru_j">>,
       <<"ru_h", "ru_e", "ru_j">>
    >>

\* app.py:436, the words of the introduction rule
WORDS_INTRODUCTION ==
    <<
       <<"ru_m", "ru_e", "ru_n", "ru_ya", " ", "ru_z", "ru_o", "ru_v", "ru_u", "ru_t">>,
       <<"ru_ya", " ">>,
       <<"ru_m", "ru_o", "ru_e", " ", "ru_i", "ru_m", "ru_ya">>,
       <<"m", "y", " ", "n", "a", "m", "e">>
    >>

\* app.py:441, the words of the negative mood rule
WORDS_NEGATIVE_MOOD ==
    <<
       <<"ru_p", "ru_l", "ru_o", "ru_h", "ru_o">>,
       <<"ru_g", "ru_r", "ru_u", "ru_s", "ru_t", "ru_n", "ru_o">>,
       <<"s", "a", "d">>,
       <<"ru_d", "ru_e", "ru_p", "ru_r", "ru_e", "ru_s", "ru_s">>,
       <<"ru_u", "ru_s", "ru_t", "ru_a", "ru_l">>,
       <<"ru_u", "ru_s", "ru_t", "ru_a", "ru_l", "ru_a">>,
       <<"ru_n", "ru_e", " ", "ru_o", "ru_ch", "ru_e", "ru_n", "ru_soft">>,
       <<"ru_h", "ru_r", "ru_e", "ru_n", "ru_o", "ru_v", "ru_o">>,
       <<"ru_u", "ru_zh", "ru_a", "ru_s", "ru_n", "ru_o">>
    >>

\* app.py:445, the words of the anxiety rule
WORDS_ANXIETY ==
    <<
       <<"ru_t", "ru_r", "ru_e", "ru_v", "ru_o", "ru_g">>,
       <<"ru_s", "ru_t", "ru_r", "ru_a", "ru_h">>,
       <<"a", "n", "x", "i", "o", "u", "s">>,
       <<"ru_b", "ru_o", "ru_yu", "ru_s", "ru_soft">>,
       <<"ru_v", "ru_o", "ru_l", "ru_n", "ru_u">>,
       <<"ru_p", "ru_a", "ru_n", "ru_i", "ru_k">>,
       <<"ru_n", "ru_e", "ru_r", "ru_v", "ru_n", "ru_i", "ru_ch", "ru_a">>
    >>

\* app.py:449, the words of the stress rule
WORDS_STRESS ==
    <<
       <<"ru_s", "ru_t", "ru_r", "ru_e", "ru_s", "ru_s">>,
       <<"s", "t", "r", "e", "s", "s">>,
       <<"ru_n", "ru_e", "ru_r", "ru_v", "ru_y">>,
       <<"ru_n", "ru_a", "ru_p", "ru_r", "ru_ya", "ru_zh">>,
       <<"ru_d", "ru_a", "ru_v", "ru_l", "ru_e", "ru_n">>,
       <<"ru_p", "ru_e", "ru_r", "ru_e", "ru_g", "ru_r", "ru_u", "ru_z">>
    >>

\* app.py:453, the words of the positive mood rule
WORDS_POSITIVE_MOOD ==
    <<
       <<"ru_h", "ru_o", "ru_r", "ru_o", "ru_sh", "ru_o">>,
       <<"ru_o", "ru_t", "ru_l", "ru_i", "ru_ch", "ru_n", "ru_o">>,
       <<"ru_s", "ru_u", "ru_p", "ru_e", "ru_r">>,
       <<"g", "r", "e", "a", "t">>,
       <<"h", "a", "p", "p", "y">>,
       <<"ru_p", "ru_r", "ru_e", "ru_k", "ru_r", "ru_a", "ru_s", "ru_n", "ru_o">>,
       <<"ru_z", "ru_a", "ru_m", "ru_e", "ru_ch", "ru_a", "ru_t", "ru_e", "ru_l", "ru_soft",
       "ru_n", "ru_o">>,
       <<"ru_k", "ru_l", "ru_a", "ru_s", "ru_s">>,
       <<"ru_n", "ru_o", "ru_r", "ru_m">>
    >>

\* app.py:457, the words of the gratitude rule
WORDS_GRATITUDE ==
    <<
       <<"ru_s", "ru_p", "ru_a", "ru_s", "ru_i", "ru_b", "ru_o">>,
       <<"t", "h", "a", "n", "k", "s">>,
       <<"ru_b", "ru_l", "ru_a", "ru_g", "ru_o", "ru_d", "ru_a", "ru_r">>,
       <<"ru_s", "ru_p", "ru_s">>
    >>

\* app.py:461, the words of the identity rule
WORDS_IDENTITY ==
    <<
       <<"ru_k", "ru_t", "ru_o", " ", "ru_t", "ru_y">>,
       <<"ru_ch", "ru_t", "ru_o", " ", "ru_t", "ru_y">>,
       <<"w", "h", "o", " ", "a", "r", "e">>,
       <<"ru_r", "ru_a", "ru_s", "ru_s", "ru_k", "ru_a", "ru_zh", " ", "ru_o", " ", "ru_s",
       "ru_e", "ru_b", "ru_e">>
    >>

\* app.py:465, the words of the sleep rule
WORDS_SLEEP ==
    <<
       <<"ru_n", "ru_e", " ", "ru_m", "ru_o", "ru_g", "ru_u", " ", "ru_z", "ru_a", "ru_s",
       "ru_n", "ru_u", "ru_t", "ru_soft">>,
       <<"ru_b", "ru_e", "ru_s", "ru_s", "ru_o", "ru_n", "ru_n", "ru_i", "ru_c">>,
       <<"ru_n", "ru_e", " ", "ru_s", "ru_p", "ru_l", "ru_yu">>,
       <<"s", "l", "e", "e", "p">>,
       <<"ru_s", "ru_o", "ru_n">>
    >>

\* app.py:469, the words of the loneliness rule
WORDS_LONELINESS ==
    <<
       <<"ru_o", "ru_d", "ru_i", "ru_n", "ru_o", "ru_k">>,
       <<"l", "o", "n", "e", "l", "y">>,
       <<"ru_n", "ru_i", "ru_k", "ru_o", "ru_m", "ru_u", " ", "ru_n", "ru_e", " ", "ru_n",
       "ru_u", "ru_zh", "ru_e", "ru_n">>,
       <<"ru_o", "ru_d", "ru_i", "ru_n">>,
       <<"ru_o", "ru_d", "ru_n", "ru_a">>
    >>

\* app.py:473, the words of the work study rule
WORDS_WORK_STUDY ==
    <<
       <<"ru_r", "ru_a", "ru_b", "ru_o", "ru_t">>,
       <<"ru_u", "ru_ch", "ru_yo", "ru_b">>,
       <<"ru_u", "ru_ch", "ru_e", "ru_b">>,
       <<"ru_eh", "ru_k", "ru_z", "ru_a", "ru_m", "ru_e", "ru_n">>,
       <<"ru_d", "ru_e", "ru_d", "ru_l", "ru_a", "ru_j", "ru_n">>,
       <<"d", "e", "a", "d", "l", "i", "n", "e">>,
       <<"ru_z", "ru_a", "ru_d", "ru_a", "ru_n">>
    >>

\* app.py:477, the words of the motivation rule
WORDS_MOTIVATION ==
    <<
       <<"ru_n", "ru_e", " ", "ru_h", "ru_o", "ru_ch", "ru_u", " ", "ru_n", "ru_i", "ru_ch",
       "ru_e", "ru_g", "ru_o">>,
       <<"ru_n", "ru_e", "ru_t", " ", "ru_s", "ru_i", "ru_l">>,
       <<"ru_m", "ru_o", "ru_t", "ru_i", "ru_v", "ru_a", "ru_c">>,
       <<"ru_l", "ru_e", "ru_n", "ru_soft">>,
       <<"ru_a", "ru_p", "ru_a", "ru_t", "ru_i", "ru_ya">>
    >>

\* app.py:481, the words of the help rule
WORDS_HELP ==
    <<
       <<"ru_p", "ru_o", "ru_m", "ru_o", "ru_g">>,
       <<"h", "e", "l", "p">>,
       <<"ru_ch", "ru_t", "ru_o", " ", "ru_d", "ru_e", "ru_l", "ru_a", "ru_t", "ru_soft">>,
       <<"ru_k", "ru_a", "ru_k", " ", "ru_b", "ru_y", "ru_t", "ru_soft">>,
       <<"ru_p", "ru_o", "ru_s", "ru_o", "ru_v", "ru_e", "ru_t">>
    >>

\* app.py:432-482, the rules in the order the function tests them
RULES ==
    <<
    [words |-> WORDS_GREETING, response |-> RESPONSE_GREETING],
    [words |-> WORDS_INTRODUCTION, response |-> RESPONSE_INTRODUCTION],
    [words |-> WORDS_NEGATIVE_MOOD, response |-> RESPONSE_NEGATIVE_MOOD],
    [words |-> WORDS_ANXIETY, response |-> RESPONSE_ANXIETY],
    [words |-> WORDS_STRESS, response |-> RESPONSE_STRESS],
    [words |-> WORDS_POSITIVE_MOOD, response |-> RESPONSE_POSITIVE_MOOD],
    [words |-> WORDS_GRATITUDE, response |-> RESPONSE_GRATITUDE],
    [words |-> WORDS_IDENTITY, response |-> RESPONSE_IDENTITY],
    [words |-> WORDS_SLEEP, response |-> RESPONSE_SLEEP],
    [words |-> WORDS_LONELINESS, response |-> RESPONSE_LONELINESS],
    [words |-> WORDS_WORK_STUDY, response |-> RESPONSE_WORK_STUDY],
    [words |-> WORDS_MOTIVATION, response |-> RESPONSE_MOTIVATION],
    [words |-> WORDS_HELP, response |-> RESPONSE_HELP]
    >>

\* app.py:76
AI_UNAVAILABLE_TEXT ==
    <<"A", "I", " ", "ru_v", "ru_r", "ru_e", "ru_m", "ru_e", "ru_n", "ru_n", "ru_o", " ",
    "ru_n", "ru_e", "ru_d", "ru_o", "ru_s", "ru_t", "ru_u", "ru_p", "ru_e", "ru_n", ".", " ",
    "RU_P", "ru_o", "ru_p", "ru_r", "ru_o", "ru_b", "ru_u", "ru_j", " ", "ru_p", "ru_o",
    "ru_z", "ru_zh", "ru_e", " ", "U+1F319">>

\* app.py:196
MSG_FILL_ALL_FIELDS ==
    <<"RU_Z", "ru_a", "ru_p", "ru_o", "ru_l", "ru_n", "ru_i", " ", "ru_v", "ru_s", "ru_e", " ",
    "ru_p", "ru_o", "ru_l", "ru_ya">>

\* app.py:199
MSG_NAME_TOO_SHORT ==
    <<"RU_I", "ru_m", "ru_ya", " ", "ru_s", "ru_l", "ru_i", "ru_sh", "ru_k", "ru_o", "ru_m",
    " ", "ru_k", "ru_o", "ru_r", "ru_o", "ru_t", "ru_k", "ru_o", "ru_e">>

\* app.py:202
MSG_PASSWORD_TOO_SHORT ==
    <<"RU_P", "ru_a", "ru_r", "ru_o", "ru_l", "ru_soft", " ", "ru_m", "ru_i", "ru_n", "ru_i",
    "ru_m", "ru_u", "ru_m", " ", "4", " ", "ru_s", "ru_i", "ru_m", "ru_v", "ru_o", "ru_l",
    "ru_a">>

\* app.py:205
MSG_PASSWORDS_DIFFER ==
    <<"RU_P", "ru_a", "ru_r", "ru_o", "ru_l", "ru_i", " ", "ru_n", "ru_e", " ", "ru_s", "ru_o",
    "ru_v", "ru_p", "ru_a", "ru_d", "ru_a", "ru_yu", "ru_t">>

\* app.py:210
MSG_NAME_TAKEN ==
    <<"RU_EH", "ru_t", "ru_o", " ", "ru_i", "ru_m", "ru_ya", " ", "ru_u", "ru_zh", "ru_e", " ",
    "ru_z", "ru_a", "ru_n", "ru_ya", "ru_t", "ru_o">>

\* app.py:238
MSG_BAD_LOGIN ==
    <<"RU_N", "ru_e", "ru_v", "ru_e", "ru_r", "ru_n", "ru_o", "ru_e", " ", "ru_i", "ru_m",
    "ru_ya", " ", "ru_i", "ru_l", "ru_i", " ", "ru_p", "ru_a", "ru_r", "ru_o", "ru_l",
    "ru_soft">>

\* app.py:358
MSG_EMPTY_MESSAGE ==
    <<"RU_P", "ru_u", "ru_s", "ru_t", "ru_o", "ru_e", " ", "ru_s", "ru_o", "ru_o", "ru_b",
    "ru_sch", "ru_e", "ru_n", "ru_i", "ru_e">>

\* app.py:517
MSG_CHOOSE_MOOD ==
    <<"RU_V", "ru_y", "ru_b", "ru_e", "ru_r", "ru_i", " ", "ru_n", "ru_a", "ru_s", "ru_t",
    "ru_r", "ru_o", "ru_e", "ru_n", "ru_i", "ru_e", " ", "ru_o", "ru_t", " ", "1", " ", "ru_d",
    "ru_o", " ", "5">>

\* app.py:216
WELCOME_PREFIX ==
    <<"RU_P", "ru_r", "ru_i", "ru_v", "ru_e", "ru_t", ",", " ">>

\* app.py:216
WELCOME_SUFFIX ==
    <<"!", " ", "U+1F319", " ", "RU_YA", " ", "L", "u", "n", "a", " ", "U+2014", " ", "ru_t",
    "ru_v", "ru_o", "ru_j", " ", "A", "I", "-", "ru_p", "ru_o", "ru_m", "ru_o", "ru_sch",
    "ru_n", "ru_i", "ru_k", ".", " ", "RU_R", "ru_a", "ru_d", "ru_a", " ", "ru_z", "ru_n",
    "ru_a", "ru_k", "ru_o", "ru_m", "ru_s", "ru_t", "ru_v", "ru_u", "!", " ", "RU_K", "ru_a",
    "ru_k", " ", "ru_t", "ru_y", " ", "ru_s", "ru_e", "ru_b", "ru_ya", " ", "ru_s", "ru_e",
    "ru_g", "ru_o", "ru_d", "ru_n", "ru_ya", " ", "ru_ch", "ru_u", "ru_v", "ru_s", "ru_t",
    "ru_v", "ru_u", "ru_e", "ru_sh", "ru_soft", "?">>

\* app.py:503
CLEARED_PREFIX ==
    <<"RU_CH", "ru_a", "ru_t", " ", "ru_o", "ru_ch", "ru_i", "ru_sch", "ru_e", "ru_n", "!",
    " ", "U+1F319", " ", "RU_K", "ru_a", "ru_k", " ", "ru_ya", " ", "ru_m", "ru_o", "ru_g",
    "ru_u", " ", "ru_p", "ru_o", "ru_m", "ru_o", "ru_ch", "ru_soft", " ", "ru_t", "ru_e",
    "ru_b", "ru_e", ",", " ">>

\* app.py:503
CLEARED_SUFFIX ==
    <<"?">>

\* app.py:87
ROLE_USER_LABEL ==
    <<"RU_P", "ru_o", "ru_l", "ru_soft", "ru_z", "ru_o", "ru_v", "ru_a", "ru_t", "ru_e",
    "ru_l", "ru_soft">>

\* app.py:87
ROLE_LUNA_LABEL ==
    <<"L", "u", "n", "a">>

\* app.py:83
HISTORY_HEADER ==
    <<"\n", "-", "-", "-", " ", "RU_I", "RU_S", "RU_T", "RU_O", "RU_R", "RU_I", "RU_YA", " ",
    "RU_R", "RU_A", "RU_Z", "RU_G", "RU_O", "RU_V", "RU_O", "RU_R", "RU_A", " ", "-", "-",
    "-">>

\* app.py:91
NEW_MESSAGE_HEADER ==
    <<"\n", "-", "-", "-", " ", "RU_N", "RU_O", "RU_V", "RU_O", "RU_E", " ", "RU_S", "RU_O",
    "RU_O", "RU_B", "RU_SCH", "RU_E", "RU_N", "RU_I", "RU_E", " ", "-", "-", "-">>

\* app.py:93
ANSWER_HEADER ==
    <<"\n", "-", "-", "-", " ", "RU_T", "RU_V", "RU_O", "RU_J", " ", "RU_O", "RU_T", "RU_V",
    "RU_E", "RU_T", " ", "(", "L", "u", "n", "a", ")", " ", "-", "-", "-">>

\* app.py:94
ANSWER_INSTRUCTION ==
    <<"RU_O", "ru_t", "ru_v", "ru_e", "ru_t", "ru_soft", " ", "ru_p", "ru_o", "ru_l", "ru_n",
    "ru_o", "ru_s", "ru_t", "ru_soft", "ru_yu", ",", " ", "ru_n", "ru_e", " ", "ru_o", "ru_b",
    "ru_r", "ru_y", "ru_v", "ru_a", "ru_ya", " ", "ru_m", "ru_y", "ru_s", "ru_l", "ru_soft",
    ":">>

\* app.py:396
GUEST_USER_PREFIX ==
    <<"\n", "RU_P", "ru_o", "ru_l", "ru_soft", "ru_z", "ru_o", "ru_v", "ru_a", "ru_t", "ru_e",
    "ru_l", "ru_soft", ":", " ">>

\* app.py:397
GUEST_LUNA_LINE ==
    <<"\n", "L", "u", "n", "a", ":">>

\* app.py:158-162, a fixed part of the mood prompt
MOOD_PROMPT_HEAD ==
    <<"RU_P", "ru_o", "ru_l", "ru_soft", "ru_z", "ru_o", "ru_v", "ru_a", "ru_t", "ru_e",
    "ru_l", "ru_soft", " ", "ru_z", "ru_a", "ru_p", "ru_i", "ru_s", "ru_a", "ru_l", " ",
    "ru_v", " ", "ru_d", "ru_n", "ru_e", "ru_v", "ru_n", "ru_i", "ru_k", " ", "ru_n", "ru_a",
    "ru_s", "ru_t", "ru_r", "ru_o", "ru_e", "ru_n", "ru_i", "ru_ya", ":", "\n", "RU_N", "ru_a",
    "ru_s", "ru_t", "ru_r", "ru_o", "ru_e", "ru_n", "ru_i", "ru_e", ":", " ">>

\* app.py:158-162, a fixed part of the mood prompt
MOOD_PROMPT_SLASH ==
    <<"/", "5", " ", "(">>

\* app.py:158-162, a fixed part of the mood prompt
MOOD_PROMPT_NOTE ==
    <<")", "\n", "RU_Z", "ru_a", "ru_m", "ru_e", "ru_t", "ru_k", "ru_a", ":", " ">>

\* app.py:158-162, a fixed part of the mood prompt
MOOD_PROMPT_TAIL ==
    <<"\n", "\n", "RU_D", "ru_a", "ru_j", " ", "ru_k", "ru_r", "ru_a", "ru_t", "ru_k", "ru_i",
    "ru_j", " ", "(", "2", "-", "3", " ", "ru_p", "ru_r", "ru_e", "ru_d", "ru_l", "ru_o",
    "ru_zh", "ru_e", "ru_n", "ru_i", "ru_ya", ")", " ", "ru_t", "ru_yo", "ru_p", "ru_l",
    "ru_y", "ru_j", ",", " ", "ru_p", "ru_o", "ru_d", "ru_d", "ru_e", "ru_r", "ru_zh", "ru_i",
    "ru_v", "ru_a", "ru_yu", "ru_sch", "ru_i", "ru_j", " ", "ru_k", "ru_o", "ru_m", "ru_m",
    "ru_e", "ru_n", "ru_t", "ru_a", "ru_r", "ru_i", "ru_j", ".", " ", "RU_E", "ru_s", "ru_l",
    "ru_i", " ", "ru_u", "ru_m", "ru_e", "ru_s", "ru_t", "ru_n", "ru_o", " ", "U+2014", " ",
    "ru_m", "ru_a", "ru_l", "ru_e", "ru_n", "ru_soft", "ru_k", "ru_i", "ru_j", " ", "ru_p",
    "ru_r", "ru_a", "ru_k", "ru_t", "ru_i", "ru_ch", "ru_n", "ru_y", "ru_j", " ", "ru_s",
    "ru_o", "ru_v", "ru_e", "ru_t", ".">>

\* app.py:156
mood_labels ==
    <<
       <<"ru_o", "ru_ch", "ru_e", "ru_n", "ru_soft", " ", "ru_p", "ru_l", "ru_o", "ru_h",
       "ru_o">>,
       <<"ru_p", "ru_l", "ru_o", "ru_h", "ru_o">>,
       <<"ru_n", "ru_o", "ru_r", "ru_m", "ru_a", "ru_l", "ru_soft", "ru_n", "ru_o">>,
       <<"ru_h", "ru_o", "ru_r", "ru_o", "ru_sh", "ru_o">>,
       <<"ru_o", "ru_t", "ru_l", "ru_i", "ru_ch", "ru_n", "ru_o">>
    >>

\* app.py:159, the label of a mood the table lacks
MOOD_LABEL_MISSING ==
    <<"ru_n", "ru_e", " ", "ru_u", "ru_k", "ru_a", "ru_z", "ru_a", "ru_n", "ru_o">>

\* app.py:160, what stands for an empty note
MOOD_NO_NOTE ==
    <<"ru_b", "ru_e", "ru_z", " ", "ru_z", "ru_a", "ru_m", "ru_e", "ru_t", "ru_k", "ru_i">>

\* ----------------------------------------------------------------- inputs

\* Words the fallback inputs are built from: words of every rule, in several
\* letter cases, and words of no rule ("xyzzy", "feel"; "this" holds "hi").
VOCABULARY ==
    {
       <<"ru_p", "ru_r", "ru_i", "ru_v", "ru_e", "ru_t">>,
       <<"H", "e", "l", "l", "o">>,
       <<"H", "I">>,
       <<"ru_ya">>,
       <<"s", "a", "d">>,
       <<"RU_U", "ru_s", "ru_t", "ru_a", "ru_l">>,
       <<"a", "n", "x", "i", "o", "u", "s">>,
       <<"S", "T", "R", "E", "S", "S">>,
       <<"g", "r", "e", "a", "t">>,
       <<"ru_n", "ru_o", "ru_r", "ru_m">>,
       <<"t", "h", "a", "n", "k", "s">>,
       <<"RU_S", "ru_p", "ru_a", "ru_s", "ru_i", "ru_b", "ru_o">>,
       <<"w", "h", "o">>,
       <<"a", "r", "e">>,
       <<"s", "l", "e", "e", "p">>,
       <<"l", "o", "n", "e", "l", "y">>,
       <<"d", "e", "a", "d", "l", "i", "n", "e">>,
       <<"ru_l", "ru_e", "ru_n", "ru_soft">>,
       <<"h", "e", "l", "p">>,
       <<"x", "y", "z", "z", "y">>,
       <<"f", "e", "e", "l">>,
       <<"t", "h", "i", "s">>
    }

\* Whole messages added to the built ones; the first four are the documented examples.
FALLBACK_EXAMPLES ==
    {
       <<"I", " ", "f", "e", "e", "l", " ", "a", "n", "x", "i", "o", "u", "s">>,
       <<"ru_p", "ru_r", "ru_i", "ru_v", "ru_e", "ru_t">>,
       <<"RU_P", "RU_R", "RU_I", "RU_V", "RU_E", "RU_T">>,
       <<"x", "y", "z", "z", "y", "u", "n", "m", "a", "t", "c", "h", "e", "d">>,
       <<>>,
       <<"RU_M", "ru_e", "ru_n", "ru_ya", " ", "ru_z", "ru_o", "ru_v", "ru_u", "ru_t", " ",
       "A", "n", "n">>,
       <<"ru_ch", "ru_t", "ru_o", " ", "ru_d", "ru_e", "ru_l", "ru_a", "ru_t", "ru_soft">>
    }

\* request.form['name']: two names, one of them also padded, one too short, none.
NAME_INPUTS ==
    {
       <<"A", "n">>,
       <<" ", "A", "n", " ">>,
       <<"B", "o">>,
       <<"A">>,
       <<>>
    }

\* request.form['password'] and ['confirm_password'].
PASSWORD_INPUTS ==
    {
       <<"1", "2", "3", "4">>,
       <<"1", "2", "3">>
    }

\* data['message'] of a chat request: a padded message and a blank one.
CHAT_INPUTS ==
    {
       <<" ", "I", " ", "f", "e", "e", "l", " ", "a", "n", "x", "i", "o", "u", "s", "\n">>,
       <<" ", " ">>
    }

\* response.text of the remote service when it is not empty: a padded reply and white space only.
REMOTE_TEXTS ==
    {
       <<" ", "H", "e", "y", "!", " ", "\n">>,
       <<" ">>
    }

\* data['note'] of a mood request.
NOTE_INPUTS ==
    {
       <<>>,
       <<"r", "o", "u", "g", "h", " ", "d", "a", "y">>
    }

\* The content of the entries of a guest's history.
GUEST_HISTORY_TEXTS ==
    {
       <<"H", "i">>
    }

\* request.form['username'] of a profile update (kept as typed: no strip()).
PROFILE_NAME_INPUTS ==
    {
       <<>>,
       <<"B", "o">>
    }

\* request.form['email'] of a profile update.
EMAIL_INPUTS ==
    {
       <<>>,
       <<"a", "@", "b", ".", "c">>
    }

\* request.form['new_password'] of a profile update.
NEW_PASSWORD_INPUTS ==
    {
       <<>>,
       <<"1", "2", "3">>,
       <<"5", "6", "7", "8">>
    }

\* The keyword arguments of update_user_settings: <<>> for an argument that is
\* not passed, <<value>> for one that is.
SETTINGS_INPUTS ==
    [theme : {<<>>, <<"light">>}, notifications : {<<>>, <<0>>}]

\* A value of GEMINI_API_KEY_1.
KEY_1 ==
    <<"k", "e", "y", "-", "1">>

\* A value of GEMINI_API_KEY_2.
KEY_2 ==
    <<"k", "e", "y", "-", "2">>

\* app.py:218
DASHBOARD ==
    <<"/", "d", "a", "s", "h", "b", "o", "a", "r", "d">>

\* app.py:172, url_for('index')
INDEX ==
    <<"/">>

\* str(True), how an f-string renders the JSON value true.
TRUE_TEXT ==
    <<"T", "r", "u", "e">>

\* ------------------------------------------------------- text operations

\* str.lower() on one character.
LowerChar(c) ==
    IF \E i \in 1..Len(UPPERCASE) : UPPERCASE[i] = c
    THEN LOWERCASE[CHOOSE i \in 1..Len(UPPERCASE) : UPPERCASE[i] = c]
    ELSE c

\* str.lower()
lower(s) == [i \in 1..Len(s) |-> LowerChar(s[i])]

\* The characters str.strip() and str.split() take for white space.
WHITESPACE == {" ", "\n", "\t", "\r"}

\* str.strip(): the text without its leading and trailing white space.
strip(s) ==
    LET inked == {i \in 1..Len(s) : s[i] \notin WHITESPACE}
        first == CHOOSE i \in inked : \A j \in inked : i <= j
        last  == CHOOSE i \in inked : \A j \in inked : j <= i
    IN  IF inked = {} THEN <<>> ELSE SubSeq(s, first, last)

\* `word in text`: word occurs in text as a substring.
Contains(text, word) ==
    \E i \in 0..(Len(text) - Len(word)) :
        \A j \in 1..Len(word) : text[i + j] = word[j]

\* any(word in message_lower for word in words)
AnyWordIn(words, message_lower) ==
    \E k \in 1..Len(words) : Contains(message_lower, words[k])

\* The chain of `if any(...): return ...` from rule i on, then the default.
RECURSIVE FirstMatch(_, _)
FirstMatch(message_lower, i) ==
    IF i > Len(RULES) THEN RESPONSE_DEFAULT
    ELSE IF AnyWordIn(RULES[i].words, message_lower) THEN RULES[i].response
    ELSE FirstMatch(message_lower, i + 1)

\* A plausible slip: the chain written so that a later rule overrides an
\* earlier one.
get_simple_response_last_match(message) ==
    LET matching == {i \in 1..Len(RULES) : AnyWordIn(RULES[i].words, lower(message))}
        last == CHOOSE i \in matching : \A j \in matching : j <= i
    IN  IF matching = {} THEN RESPONSE_DEFAULT ELSE RULES[last].response

\* A plausible slip: the rules matched against the message as typed.
get_simple_response_as_typed(message) == FirstMatch(message, 1)

\* app.py:427-485
get_simple_response(message) == FirstMatch(lower(message), 1)

\* ------------------------------------------------------------------ state

VARIABLES
    AI_AVAILABLE,           \* app.py:16-20: the import of google.generativeai succeeded
    API_KEYS,               \* app.py:34-37: the two credentials, <<>> when unset
    current_api_key_index,  \* app.py:38, 0-based as in the source
    users,                  \* the tables, each the sequence of its rows in rowid order
    user_settings,
    mood_entries,
    chat_messages,
    sqlite_sequence,        \* AUTOINCREMENT: the largest rowid each table ever held
    now,                    \* the wall clock CURRENT_TIMESTAMP reads, in seconds
    session,                \* per client, the value of session['user_id']: {} or {id}
    th,                     \* per client, the request it has in flight and its locals
    call                    \* the pure-function harness: an argument and the result

vars == <<AI_AVAILABLE, API_KEYS, current_api_key_index, users, user_settings,
          mood_entries, chat_messages, sqlite_sequence, now, session, th, call>>

config == <<AI_AVAILABLE, API_KEYS>>
tables == <<users, user_settings, mood_entries, chat_messages, sqlite_sequence>>

\* The browsers. A request of a client runs in a thread of its own.
Clients == {"c1", "c2"}

\* models_to_try, app.py:110-114
models_to_try ==
    << "models/gemini-2.5-flash-lite",
       "models/gemini-2.5-flash-preview-09-2025",
       "models/gemini-flash-lite-latest" >>

\* A JSON value of data['mood']: a number, null, a string or a boolean.
\* num is the number, the number the string spells, or 1 for true and 0 for false.
MOOD_INPUTS ==
    [type : {"number"}, num : 0..6]
    \cup { [type |-> "null", num |-> 0],
           [type |-> "string", num |-> 3],
           [type |-> "boolean", num |-> 1],
           [type |-> "boolean", num |-> 0] }

\* ---------------------------------------------------------------- the store

\* werkzeug's generate_password_hash: opaque, checked only by check_password_hash.
generate_password_hash(password) == [pbkdf2 |-> password]
check_password_hash(pwhash, password) == pwhash = [pbkdf2 |-> password]

\* SQL NULL in a text column.
NULL == <<"NULL">>

\* ORDER BY created_at ASC | DESC. The rows reach SQLite's sorter in rowid order
\* (a table scan) and the sorter keeps rows of equal created_at in that order.
RECURSIVE OrderByCreatedAt(_, _)
OrderByCreatedAt(rows, desc) ==
    IF rows = <<>> THEN <<>>
    ELSE LET sorted == OrderByCreatedAt(SubSeq(rows, 1, Len(rows) - 1), desc)
             r      == rows[Len(rows)]
             ahead  == Cardinality({i \in 1..Len(sorted) :
                           IF desc THEN sorted[i].created_at >= r.created_at
                                   ELSE sorted[i].created_at <= r.created_at})
         IN  SubSeq(sorted, 1, ahead) \o <<r>> \o SubSeq(sorted, ahead + 1, Len(sorted))

\* LIMIT n
Limit(rows, n) == SubSeq(rows, 1, IF n < Len(rows) THEN n ELSE Len(rows))

\* reversed(messages)
reversed(s) == [i \in 1..Len(s) |-> s[Len(s) + 1 - i]]

\* database.py:97-104; <<>> stands for None
get_user_by_username(username) ==
    SelectSeq(users, LAMBDA u : u.username = username)

\* database.py:106-113; <<>> stands for None
get_user_by_id(user_id) ==
    SelectSeq(users, LAMBDA u : u.id = user_id)

\* A plausible slip: ORDER BY created_at DESC in the history query.
get_chat_history_newest_first(user_id, limit) ==
    Limit(OrderByCreatedAt(SelectSeq(chat_messages, LAMBDA m : m.user_id = user_id), TRUE), limit)

\* database.py:219-229
get_chat_history(user_id, limit) ==
    Limit(OrderByCreatedAt(SelectSeq(chat_messages, LAMBDA m : m.user_id = user_id), FALSE), limit)

\* database.py:239-249
get_recent_messages(user_id, limit) ==
    LET messages ==
            Limit(OrderByCreatedAt(SelectSeq(chat_messages, LAMBDA m : m.user_id = user_id), TRUE),
                  limit)
    IN  reversed([i \in 1..Len(messages) |->
                     [role |-> messages[i].role, content |-> messages[i].content]])

\* database.py:156-166
get_mood_entries(user_id, limit) ==
    Limit(OrderByCreatedAt(SelectSeq(mood_entries, LAMBDA e : e.user_id = user_id), TRUE), limit)

\* database.py:253-260: the settings row of the user, or the defaults
get_user_settings(user_id) ==
    LET settings == SelectSeq(user_settings, LAMBDA s : s.user_id = user_id)
    IN  IF settings # <<>> THEN settings[1] ELSE [theme |-> "dark", notifications |-> 1]

\* SUM(mood) over rows
RECURSIVE SUM(_)
SUM(rows) == IF rows = <<>> THEN 0 ELSE rows[1].mood + SUM(Tail(rows))

\* AVG(mood) over rows, kept as the fraction num/den; den = 0 stands for the
\* SQL NULL there is without rows.
AVG(rows) == [num |-> SUM(rows), den |-> Len(rows)]

\* The truth value Python gives AVG's result: None and 0.0 are falsy.
is_truthy(x) == x.den # 0 /\ x.num # 0

\* Python's round(x, 2) of the fraction x >= 0, in hundredths: the nearest
\* hundredth, and the even one when x lies halfway between two.
round2(x) ==
    LET down == (100 * x.num) \div x.den
        rest == 100 * x.num - down * x.den
    IN  IF 2 * rest > x.den THEN down + 1
        ELSE IF 2 * rest < x.den THEN down
        ELSE IF down % 2 = 0 THEN down ELSE down + 1

\* The elements of a set of numbers in increasing order (ORDER BY date).
RECURSIVE Ascending(_)
Ascending(S) ==
    IF S = {} THEN <<>>
    ELSE LET least == CHOOSE x \in S : \A y \in S : x <= y
         IN  <<least>> \o Ascending(S \ {least})

\* A plausible slip: the WHERE user_id = ? left out of the queries.
get_mood_stats_of_everyone(user_id) ==
    LET rows == mood_entries
        avg_mood == AVG(rows)
        moods == {rows[i].mood : i \in 1..Len(rows)}
    IN  [average |-> IF is_truthy(avg_mood) THEN round2(avg_mood) ELSE 0,
         total |-> Len(rows),
         distribution |-> [m \in moods |-> Len(SelectSeq(rows, LAMBDA e : e.mood = m))],
         weekly |-> <<>>]

\* database.py:168-204. average is in hundredths; a date is the number of its
\* day (created_at is in seconds), and each avg_mood of weekly is a fraction.
get_mood_stats(user_id) ==
    LET rows == SelectSeq(mood_entries, LAMBDA e : e.user_id = user_id)
        avg_mood == AVG(rows)
        moods == {rows[i].mood : i \in 1..Len(rows)}
        recent == SelectSeq(rows, LAMBDA e : e.created_at >= now - 7 * 86400)
        dates == Ascending({recent[i].created_at \div 86400 : i \in 1..Len(recent)})
    IN  [average |-> IF is_truthy(avg_mood) THEN round2(avg_mood) ELSE 0,
         total |-> Len(rows),
         distribution |-> [m \in moods |-> Len(SelectSeq(rows, LAMBDA e : e.mood = m))],
         weekly |-> [i \in 1..Len(dates) |->
                       [date |-> dates[i],
                        avg_mood |-> AVG(SelectSeq(recent,
                                         LAMBDA e : e.created_at \div 86400 = dates[i]))]]]

\* A plausible slip: the role column is bound to 'user' whatever the caller passes.
add_chat_message_as_user(user_id, role, content) ==
    /\ chat_messages' = Append(chat_messages,
           [id |-> sqlite_sequence.chat_messages + 1, user_id |-> user_id,
            role |-> "user", content |-> content, created_at |-> now])
    /\ sqlite_sequence' = [sqlite_sequence EXCEPT !.chat_messages = @ + 1]

\* database.py:208-217: one INSERT, committed. The row takes the next rowid and
\* CURRENT_TIMESTAMP.
add_chat_message(user_id, role, content) ==
    /\ chat_messages' = Append(chat_messages,
           [id |-> sqlite_sequence.chat_messages + 1, user_id |-> user_id,
            role |-> role, content |-> content, created_at |-> now])
    /\ sqlite_sequence' = [sqlite_sequence EXCEPT !.chat_messages = @ + 1]

\* A plausible slip: the WHERE user_id = ? left out of the DELETE.
clear_chat_history_of_everyone(user_id) ==
    chat_messages' = <<>>

\* A plausible slip: the DELETE left out.
clear_chat_history_keeps_rows(user_id) ==
    chat_messages' = chat_messages

\* database.py:231-237
clear_chat_history(user_id) ==
    chat_messages' = SelectSeq(chat_messages, LAMBDA m : m.user_id # user_id)

\* The CHECK of mood_entries.mood, database.py:36
MoodCheck(mood) == mood >= 1 /\ mood <= 5

\* str(e) of the sqlite3.IntegrityError that CHECK raises
CHECK_FAILED ==
    <<"C", "H", "E", "C", "K", " ", "c", "o", "n", "s", "t", "r", "a", "i", "n", "t", " ",
    "f", "a", "i", "l", "e", "d">>

\* database.py:143-154: one INSERT, committed; MoodCheck(mood) holds
add_mood_entry(user_id, mood, note, ai_insight) ==
    /\ mood_entries' = Append(mood_entries,
           [id |-> sqlite_sequence.mood_entries + 1, user_id |-> user_id, mood |-> mood,
            note |-> note, ai_insight |-> ai_insight, created_at |-> now])
    /\ sqlite_sequence' = [sqlite_sequence EXCEPT !.mood_entries = @ + 1]

\* A plausible slip: no UNIQUE on users.username.
username_is_taken_never(username) == FALSE

\* UNIQUE on users.username, database.py:23: the INSERT of create_user raises
\* sqlite3.IntegrityError when a row holds the name (compared byte by byte).
username_is_taken(username) == get_user_by_username(username) # <<>>

\* A plausible slip: the INSERT into user_settings left out of create_user.
create_user_without_settings(username, password, email) ==
    /\ users' = Append(users,
           [id |-> sqlite_sequence.users + 1, username |-> username,
            password |-> generate_password_hash(password), email |-> email,
            avatar_color |-> "#64C4ED"])
    /\ user_settings' = user_settings
    /\ sqlite_sequence' = [sqlite_sequence EXCEPT !.users = @ + 1]

\* database.py:73-95 when no IntegrityError is raised: the user row and its
\* settings row, in one transaction.
create_user(username, password, email) ==
    /\ users' = Append(users,
           [id |-> sqlite_sequence.users + 1, username |-> username,
            password |-> generate_password_hash(password), email |-> email,
            avatar_color |-> "#64C4ED"])
    /\ user_settings' = Append(user_settings,
           [id |-> sqlite_sequence.user_settings + 1, user_id |-> sqlite_sequence.users + 1,
            theme |-> "dark", notifications |-> 1])
    /\ sqlite_sequence' = [sqlite_sequence EXCEPT !.users = @ + 1, !.user_settings = @ + 1]

\* str(e) of the sqlite3.IntegrityError that UNIQUE on users.username raises
UNIQUE_FAILED ==
    <<"U", "N", "I", "Q", "U", "E", " ", "c", "o", "n", "s", "t", "r", "a", "i", "n", "t", " ",
    "f", "a", "i", "l", "e", "d", ":", " ", "u", "s", "e", "r", "s", ".", "u", "s", "e", "r",
    "n", "a", "m", "e">>

\* A plausible slip: users.username declared without UNIQUE, so that the
\* UPDATE never raises.
update_user_never_raises(user_id, updates) == FALSE

\* database.py:115-139 raises sqlite3.IntegrityError: the UPDATE would give the
\* row a username another row holds (UNIQUE, database.py:23).
update_user_raises(user_id, updates) ==
    /\ updates.username # <<>>
    /\ \E i \in 1..Len(users) : users[i].id # user_id /\ users[i].username = updates.username

\* database.py:115-139 when nothing is raised: the fields with a truthy value
\* are set in the row of the user; a password is stored hashed.
update_user(user_id, updates) ==
    users' = [i \in 1..Len(users) |->
                IF users[i].id # user_id THEN users[i]
                ELSE [users[i] EXCEPT
                        !.username = IF updates.username # <<>> THEN updates.username ELSE @,
                        !.email = IF updates.email # <<>> THEN updates.email ELSE @,
                        !.password = IF updates.password # <<>>
                                     THEN generate_password_hash(updates.password) ELSE @]]

\* database.py:262-284: the arguments passed are set in the settings row of
\* the user, if there is one.
update_user_settings(user_id, kwargs) ==
    user_settings' = [i \in 1..Len(user_settings) |->
                IF user_settings[i].user_id # user_id THEN user_settings[i]
                ELSE [user_settings[i] EXCEPT
                        !.theme = IF kwargs.theme # <<>> THEN kwargs.theme[1] ELSE @,
                        !.notifications = IF kwargs.notifications # <<>>
                                          THEN kwargs.notifications[1] ELSE @]]

\* --------------------------------------------------------------- requests

\* What a handler returns: jsonify(...) or redirect(...).
NoResponse ==
    [kind |-> "none", success |-> FALSE, message |-> <<>>, response |-> <<>>,
     redirect |-> <<>>, entry_id |-> 0, ai_insight |-> <<>>, user |-> <<>>]

JsonFailure(message) == [NoResponse EXCEPT !.kind = "json", !.message = message]
JsonRedirect(to) == [NoResponse EXCEPT !.kind = "json", !.success = TRUE, !.redirect = to]
JsonChat(text) == [NoResponse EXCEPT !.kind = "json", !.success = TRUE, !.response = text]
JsonMood(entry_id, ai_insight) ==
    [NoResponse EXCEPT !.kind = "json", !.success = TRUE, !.entry_id = entry_id,
                       !.ai_insight = ai_insight]
JsonSuccess == [NoResponse EXCEPT !.kind = "json", !.success = TRUE]
JsonProfile(user) ==
    [NoResponse EXCEPT !.kind = "json", !.success = TRUE, !.user = <<user.username, user.email>>]
Redirect(to) == [NoResponse EXCEPT !.kind = "redirect", !.redirect = to]

\* A client with no request in flight. The fields are the request's inputs, the
\* locals of its handler and of get_ai_response, and the response. Five fields
\* record what the request found and did: chat_before is chat_messages and
\* index0 the cursor when it began, calls the credential (by index) and the
\* model (by position, 0 for genai.configure) of each remote call, accepted
\* whether one of them returned a text, advances how often it moved the cursor.
IdleThread ==
    [pc |-> "idle", handler |-> "none",
     raw |-> <<>>, mood_value |-> [type |-> "null", num |-> 0], note |-> <<>>,
     history |-> <<>>,
     user_id |-> 0, username |-> <<>>, message |-> <<>>, context_type |-> "none",
     recent_messages |-> <<>>, attempt |-> 0, model |-> 0, ai_response |-> <<>>,
     calls |-> <<>>, accepted |-> FALSE, index0 |-> 0, advances |-> 0,
     chat_before |-> <<>>,
     response |-> NoResponse]

\* 'user_id' in session
LoggedIn(c) == session[c] # {}
\* session['user_id']
SessionUser(c) == CHOOSE user_id \in session[c] : TRUE

Done(c, t, response) ==
    th' = [th EXCEPT ![c] = [t EXCEPT !.pc = "done", !.response = response]]

\* A plausible slip: the blank-credential branch continues without moving the
\* cursor.
advance_stays(index) == index

\* A plausible slip: the cursor is moved on without wrapping.
advance_unwrapped(index) == index + 1

\* A plausible slip: the cursor stops at the last credential instead of wrapping.
advance_clamped(index) ==
    IF index + 1 >= Len(API_KEYS) THEN index ELSE index + 1

\* app.py:103 and app.py:148
advance(index) == (index + 1) % Len(API_KEYS)

\* The model's horizon: n more rows fit into chat_messages, mood_entries.
ChatRoom(n) == sqlite_sequence.chat_messages + n <= MaxChatId
MoodRoom(n) == sqlite_sequence.mood_entries + n <= MaxMoodId

\* The seconds pass.
Tick ==
    /\ now < MaxClock
    /\ now' = now + 1
    /\ UNCHANGED <<config, current_api_key_index, tables, session, th, call>>

\* app.py:187-213, up to the binding of the session. The welcome message is a
\* transaction of its own (RegisterWelcome).
Register(c) ==
    /\ th[c].pc = "idle"
    /\ \E name \in NAME_INPUTS, password \in PASSWORD_INPUTS, confirm \in PASSWORD_INPUTS :
        LET username == strip(name)
            t == [IdleThread EXCEPT !.handler = "register", !.username = username]
            Reject(message) ==
                /\ Done(c, t, JsonFailure(message))
                /\ UNCHANGED <<tables, session>>
        IN  /\ IF username = <<>> \/ password = <<>> THEN Reject(MSG_FILL_ALL_FIELDS)
               ELSE IF Len(username) < 2 THEN Reject(MSG_NAME_TOO_SHORT)
               ELSE IF Len(password) < 4 THEN Reject(MSG_PASSWORD_TOO_SHORT)
               ELSE IF password # confirm THEN Reject(MSG_PASSWORDS_DIFFER)
               ELSE IF username_is_taken(username) THEN Reject(MSG_NAME_TAKEN)
               ELSE /\ ChatRoom(1)
                    /\ create_user(username, password, NULL)
                    /\ session' = [session EXCEPT ![c] = {sqlite_sequence.users + 1}]
                    /\ th' = [th EXCEPT ![c] = [t EXCEPT !.pc = "welcome",
                                                        !.user_id = sqlite_sequence.users + 1]]
                    /\ UNCHANGED <<mood_entries, chat_messages>>
    /\ UNCHANGED <<config, current_api_key_index, now, call>>

\* app.py:214-218
RegisterWelcome(c) ==
    /\ th[c].pc = "welcome"
    /\ add_chat_message(th[c].user_id, "assistant",
                        WELCOME_PREFIX \o th[c].username \o WELCOME_SUFFIX)
    /\ Done(c, th[c], JsonRedirect(DASHBOARD))
    /\ UNCHANGED <<config, current_api_key_index, users, user_settings, mood_entries,
                   now, session, call>>

\* app.py:225-246
Login(c) ==
    /\ th[c].pc = "idle"
    /\ \E name \in NAME_INPUTS, password \in PASSWORD_INPUTS :
        LET username == strip(name)
            t == [IdleThread EXCEPT !.handler = "login", !.username = username]
            user == get_user_by_username(username)
        IN  IF username = <<>> \/ password = <<>>
            THEN Done(c, t, JsonFailure(MSG_FILL_ALL_FIELDS)) /\ UNCHANGED session
            ELSE IF user = <<>> \/ ~check_password_hash(user[1].password, password)
            THEN Done(c, t, JsonFailure(MSG_BAD_LOGIN)) /\ UNCHANGED session
            ELSE /\ session' = [session EXCEPT ![c] = {user[1].id}]
                 /\ Done(c, [t EXCEPT !.user_id = user[1].id], JsonRedirect(DASHBOARD))
    /\ UNCHANGED <<config, current_api_key_index, tables, now, call>>

\* app.py:249-253
Logout(c) ==
    /\ th[c].pc = "idle"
    /\ session' = [session EXCEPT ![c] = {}]
    /\ Done(c, [IdleThread EXCEPT !.handler = "logout"], Redirect(INDEX))
    /\ UNCHANGED <<config, current_api_key_index, tables, now, call>>

\* app.py:129
accept_text_as_sent(text) == text

\* app.py:129, response.text.strip()
accept_text(text) == strip(text)

\* A plausible slip: the early return's text where the fallback is meant.
all_keys_failed_unavailable(message) == AI_UNAVAILABLE_TEXT

\* app.py:150-151, the return after the loop over the credentials
all_keys_failed(message) == get_simple_response(message)

\* A plausible slip: range(1, 5).
mood_is_valid_below_5(mood_value) ==
    /\ mood_value.type \in {"number", "boolean"}
    /\ mood_value.num \in 1..4

\* app.py:516: mood_value and mood_value in range(1, 6). null, 0 and false are
\* falsy; true equals 1; a string equals no number.
mood_is_valid(mood_value) ==
    /\ mood_value.type \in {"number", "boolean"}
    /\ mood_value.num # 0
    /\ mood_value.num \in 1..5

DIGITS == <<"0", "1", "2", "3", "4", "5", "6", "7", "8", "9">>

\* app.py:158-162, the f-string of analyze_mood_with_ai
mood_prompt(mood_value, note) ==
    MOOD_PROMPT_HEAD
    \o (IF mood_value.type = "boolean" THEN TRUE_TEXT ELSE <<DIGITS[mood_value.num + 1]>>)
    \o MOOD_PROMPT_SLASH
    \o (IF mood_value.num \in 1..Len(mood_labels) THEN mood_labels[mood_value.num]
        ELSE MOOD_LABEL_MISSING)
    \o MOOD_PROMPT_NOTE
    \o (IF note # <<>> THEN note ELSE MOOD_NO_NOTE)
    \o MOOD_PROMPT_TAIL

\* app.py:523-529 (and 531-533 when the INSERT raises): api_mood once
\* analyze_mood_with_ai has returned ai_insight.
StoreMood(c, t, ai_insight) ==
    IF MoodCheck(t.mood_value.num)
    THEN /\ add_mood_entry(t.user_id, t.mood_value.num, t.note, ai_insight)
         /\ Done(c, t, JsonMood(sqlite_sequence.mood_entries + 1, ai_insight))
    ELSE /\ Done(c, t, JsonFailure(CHECK_FAILED))
         /\ UNCHANGED <<mood_entries, sqlite_sequence>>

\* get_ai_response has returned text to its caller: api_chat answers with it
\* (app.py:362-366), api_mood stores it (app.py:523-529).
Returned(c, t, text) ==
    IF t.handler = "chat"
    THEN Done(c, t, JsonChat(text)) /\ UNCHANGED <<mood_entries, sqlite_sequence>>
    ELSE StoreMood(c, t, text)

\* app.py:75-96, get_ai_response up to the loop over the credentials.
EnterAI(c, t) ==
    IF ~AI_AVAILABLE
    THEN Returned(c, t, AI_UNAVAILABLE_TEXT)
    ELSE /\ th' = [th EXCEPT ![c] =
                [t EXCEPT !.pc = "attempt",
                          !.recent_messages = get_recent_messages(t.user_id, 15),
                          !.index0 = current_api_key_index,
                          !.chat_before = chat_messages]]
         /\ UNCHANGED <<mood_entries, sqlite_sequence>>

\* app.py:349-360, api_chat up to the credentials loop of get_ai_response
ApiChat(c) ==
    /\ th[c].pc = "idle"
    /\ \E raw \in CHAT_INPUTS :
        LET message == strip(raw)
            t == [IdleThread EXCEPT !.handler = "chat", !.raw = raw, !.message = message,
                                    !.context_type = "chat",
                                    !.chat_before = chat_messages]
        IN  IF ~LoggedIn(c)
            THEN Done(c, t, Redirect(INDEX)) /\ UNCHANGED <<mood_entries, sqlite_sequence>>
            ELSE IF message = <<>>
            THEN /\ Done(c, [t EXCEPT !.user_id = SessionUser(c)],
                         JsonFailure(MSG_EMPTY_MESSAGE))
                 /\ UNCHANGED <<mood_entries, sqlite_sequence>>
            ELSE /\ AI_AVAILABLE => ChatRoom(2)
                 /\ EnterAI(c, [t EXCEPT !.user_id = SessionUser(c)])
    /\ UNCHANGED <<config, current_api_key_index, users, user_settings, chat_messages,
                   now, session, call>>

\* app.py:507-520, api_mood up to the credentials loop of get_ai_response
ApiMood(c) ==
    /\ th[c].pc = "idle"
    /\ MoodRoom(1)
    /\ \E mood_value \in MOOD_INPUTS, note \in NOTE_INPUTS :
        LET t == [IdleThread EXCEPT !.handler = "mood", !.mood_value = mood_value,
                                    !.note = note, !.context_type = "mood",
                                    !.chat_before = chat_messages]
        IN  IF ~LoggedIn(c)
            THEN Done(c, t, Redirect(INDEX)) /\ UNCHANGED <<mood_entries, sqlite_sequence>>
            ELSE IF ~mood_is_valid(mood_value)
            THEN /\ Done(c, [t EXCEPT !.user_id = SessionUser(c)],
                         JsonFailure(MSG_CHOOSE_MOOD))
                 /\ UNCHANGED <<mood_entries, sqlite_sequence>>
            ELSE EnterAI(c, [t EXCEPT !.user_id = SessionUser(c),
                                      !.message = mood_prompt(mood_value, note)])
    /\ UNCHANGED <<config, current_api_key_index, users, user_settings, chat_messages,
                   now, session, call>>

\* app.py:99-104: the credential at the cursor is blank
AttemptBlank(c) ==
    /\ th[c].pc = "attempt"
    /\ th[c].attempt < 2
    /\ API_KEYS[current_api_key_index + 1] = <<>>
    /\ current_api_key_index' = advance(current_api_key_index)
    /\ th' = [th EXCEPT ![c].attempt = @ + 1, ![c].advances = @ + 1]
    /\ UNCHANGED <<config, tables, now, session, call>>

\* app.py:106-107 and 142-148: genai.configure(api_key) returns, or raises and
\* the handler of the outer try moves the cursor.
Configure(c) ==
    /\ th[c].pc = "attempt"
    /\ th[c].attempt < 2
    /\ API_KEYS[current_api_key_index + 1] # <<>>
    /\ \E raises \in BOOLEAN :
        LET log == Append(th[c].calls, [key |-> current_api_key_index, model |-> 0])
        IN  IF raises
            THEN /\ current_api_key_index' = advance(current_api_key_index)
                 /\ th' = [th EXCEPT ![c].attempt = @ + 1, ![c].advances = @ + 1,
                                     ![c].calls = log]
            ELSE /\ th' = [th EXCEPT ![c].pc = "generate", ![c].model = 1, ![c].calls = log]
                 /\ UNCHANGED current_api_key_index
    /\ UNCHANGED <<config, tables, now, session, call>>

\* A plausible slip: a model's error caught by the handler of the outer try,
\* which ends the attempt (without its cursor move, to differ in this alone).
model_failed_ends_attempt(t) ==
    [t EXCEPT !.pc = "attempt", !.attempt = @ + 1, !.model = 0]

\* app.py:116, 129 and 138-140: a model raised or gave no text; the loop over
\* models_to_try goes to the next model, or ends and with it the attempt.
model_failed(t) ==
    IF t.model < Len(models_to_try)
    THEN [t EXCEPT !.model = @ + 1]
    ELSE [t EXCEPT !.pc = "attempt", !.attempt = @ + 1, !.model = 0]

\* A plausible slip: the two inserts made for every context_type.
persists_turn_always(context_type) == TRUE

\* app.py:132: `if context_type == "chat":` before the two inserts
persists_turn(context_type) == context_type = "chat"

\* What model.generate_content(...) and response.text come to: an exception,
\* no text, or a text.
GENERATE_OUTCOMES ==
    { [kind |-> "error", text |-> <<>>], [kind |-> "empty", text |-> <<>>] }
    \cup { [kind |-> "text", text |-> r] : r \in REMOTE_TEXTS }

\* app.py:116-140: one model of models_to_try is asked.
Generate(c) ==
    /\ th[c].pc = "generate"
    /\ \E o \in GENERATE_OUTCOMES :
        LET log == Append(th[c].calls, [key |-> current_api_key_index, model |-> th[c].model])
            t == [th[c] EXCEPT !.calls = log]
        IN  IF o.kind = "text"
            THEN LET ai_response == accept_text(o.text)
                     t2 == [t EXCEPT !.ai_response = ai_response, !.accepted = TRUE]
                 IN  IF persists_turn(t.context_type)
                     THEN /\ th' = [th EXCEPT ![c] = [t2 EXCEPT !.pc = "persist_user"]]
                          /\ UNCHANGED <<mood_entries, sqlite_sequence>>
                     ELSE Returned(c, t2, ai_response)
            ELSE /\ th' = [th EXCEPT ![c] = model_failed(t)]
                 /\ UNCHANGED <<mood_entries, sqlite_sequence>>
    /\ UNCHANGED <<config, current_api_key_index, users, user_settings, chat_messages,
                   now, session, call>>

\* app.py:133
PersistUser(c) ==
    /\ th[c].pc = "persist_user"
    /\ ChatRoom(1)
    /\ add_chat_message(th[c].user_id, "user", th[c].message)
    /\ th' = [th EXCEPT ![c].pc = "persist_assistant"]
    /\ UNCHANGED <<config, current_api_key_index, users, user_settings, mood_entries,
                   now, session, call>>

\* app.py:134-136, and api_chat's answer
PersistAssistant(c) ==
    /\ th[c].pc = "persist_assistant"
    /\ ChatRoom(1)
    /\ add_chat_message(th[c].user_id, "assistant", th[c].ai_response)
    /\ Done(c, th[c], JsonChat(th[c].ai_response))
    /\ UNCHANGED <<config, current_api_key_index, users, user_settings, mood_entries,
                   now, session, call>>

\* app.py:99 and 150-151: both attempts are spent
Exhausted(c) ==
    /\ th[c].pc = "attempt"
    /\ th[c].attempt = 2
    /\ Returned(c, th[c], all_keys_failed(th[c].message))
    /\ UNCHANGED <<config, current_api_key_index, users, user_settings, chat_messages,
                   now, session, call>>

\* The histories a guest sends along.
GUEST_HISTORIES ==
    {<<>>} \cup { <<[role |-> "user", content |-> m]>> : m \in GUEST_HISTORY_TEXTS }

\* A plausible slip: the guest's turn is stored like a turn of a user.
guest_answer_persisted(c, t, response) ==
    /\ Done(c, t, response)
    /\ add_chat_message(0, "assistant", response.response)
    /\ UNCHANGED <<users, user_settings, mood_entries>>

\* app.py:381-382 and 416-420: api_chat_guest answers; no statement of it
\* touches the database.
guest_answer(c, t, response) ==
    /\ Done(c, t, response)
    /\ UNCHANGED tables

\* app.py:373-404 and 411-420, api_chat_guest up to the remote call
ApiChatGuest(c) ==
    /\ th[c].pc = "idle"
    /\ \E raw \in CHAT_INPUTS, history \in GUEST_HISTORIES :
        LET message == strip(raw)
            t == [IdleThread EXCEPT !.handler = "guest", !.raw = raw, !.message = message,
                                    !.history = history, !.chat_before = chat_messages,
                                    !.index0 = current_api_key_index]
        IN  IF message = <<>> THEN guest_answer(c, t, JsonFailure(MSG_EMPTY_MESSAGE))
            ELSE IF ~AI_AVAILABLE THEN guest_answer(c, t, JsonChat(get_simple_response(message)))
            ELSE IF API_KEYS[current_api_key_index + 1] = <<>>
            THEN guest_answer(c, t, JsonChat(get_simple_response(message)))
            ELSE /\ th' = [th EXCEPT ![c] = [t EXCEPT !.pc = "guest_generate"]]
                 /\ UNCHANGED tables
    /\ UNCHANGED <<config, current_api_key_index, now, session, call>>

\* app.py:404-420: the one remote call of api_chat_guest
GuestGenerate(c) ==
    /\ th[c].pc = "guest_generate"
    /\ \E o \in GENERATE_OUTCOMES :
        LET t == [th[c] EXCEPT !.calls = Append(@, [key |-> current_api_key_index, model |-> 1]),
                               !.accepted = (o.kind = "text")]
        IN  guest_answer(c, t, JsonChat(IF o.kind = "text" THEN strip(o.text)
                                        ELSE get_simple_response(t.message)))
    /\ UNCHANGED <<config, current_api_key_index, now, session, call>>

\* app.py:496-501, api_chat_clear up to the DELETE
ApiChatClear(c) ==
    /\ th[c].pc = "idle"
    /\ LET t == [IdleThread EXCEPT !.handler = "clear", !.chat_before = chat_messages]
       IN  IF ~LoggedIn(c)
           THEN Done(c, t, Redirect(INDEX)) /\ UNCHANGED chat_messages
           ELSE /\ ChatRoom(1)
                /\ clear_chat_history(SessionUser(c))
                /\ th' = [th EXCEPT ![c] =
                       [t EXCEPT !.pc = "cleared", !.user_id = SessionUser(c),
                                 !.username = get_user_by_id(SessionUser(c))[1].username]]
    /\ UNCHANGED <<config, current_api_key_index, users, user_settings, mood_entries,
                   sqlite_sequence, now, session, call>>

\* app.py:502-504
ClearWelcome(c) ==
    /\ th[c].pc = "cleared"
    /\ ChatRoom(1)
    /\ add_chat_message(th[c].user_id, "assistant",
                        CLEARED_PREFIX \o th[c].username \o CLEARED_SUFFIX)
    /\ Done(c, th[c], JsonSuccess)
    /\ UNCHANGED <<config, current_api_key_index, users, user_settings, mood_entries,
                   now, session, call>>

\* app.py:552-582
ApiUpdateProfile(c) ==
    /\ th[c].pc = "idle"
    /\ \E username \in PROFILE_NAME_INPUTS, email \in EMAIL_INPUTS,
          new_password \in NEW_PASSWORD_INPUTS :
        LET t == [IdleThread EXCEPT !.handler = "profile", !.username = username]
            updates == [username |-> username, email |-> email,
                        password |-> IF Len(new_password) >= 4 THEN new_password ELSE <<>>]
        IN  IF ~LoggedIn(c)
            THEN Done(c, t, Redirect(INDEX)) /\ UNCHANGED users
            ELSE IF updates = [username |-> <<>>, email |-> <<>>, password |-> <<>>]
            THEN /\ Done(c, [t EXCEPT !.user_id = SessionUser(c)],
                         JsonProfile(get_user_by_id(SessionUser(c))[1]))
                 /\ UNCHANGED users
            ELSE IF update_user_raises(SessionUser(c), updates)
            THEN /\ Done(c, [t EXCEPT !.user_id = SessionUser(c)], JsonFailure(UNIQUE_FAILED))
                 /\ UNCHANGED users
            ELSE /\ update_user(SessionUser(c), updates)
                 /\ Done(c, [t EXCEPT !.user_id = SessionUser(c)],
                         JsonProfile(SelectSeq(users', LAMBDA u : u.id = SessionUser(c))[1]))
    /\ UNCHANGED <<config, current_api_key_index, user_settings, mood_entries, chat_messages,
                   sqlite_sequence, now, session, call>>

\* database.py:262-284 called for a user id, registered or not. (No route of
\* app.py calls it.)
UpdateUserSettings ==
    /\ \E user_id \in 1..(Len(users) + 1), kwargs \in SETTINGS_INPUTS :
        IF kwargs = [theme |-> <<>>, notifications |-> <<>>]
        THEN UNCHANGED user_settings
        ELSE update_user_settings(user_id, kwargs)
    /\ UNCHANGED <<config, current_api_key_index, users, mood_entries, chat_messages,
                   sqlite_sequence, now, session, th, call>>

\* The functions of database.py called one at a time, each for a user id,
\* registered (1, 2) or not (3). call holds the function, the user id and, in
\* a sequence, what the function returned.
StoreCall(op, user_id, result) ==
    call' = [op |-> op, user_id |-> user_id, result |-> result]

\* database.py:143-154
CallAddMoodEntry ==
    /\ MoodRoom(1)
    /\ \E user_id \in 1..2 :
        /\ add_mood_entry(user_id, 4, <<>>, AI_UNAVAILABLE_TEXT)
        /\ StoreCall("add_mood_entry", user_id, <<>>)
    /\ UNCHANGED <<config, current_api_key_index, users, user_settings, chat_messages,
                   now, session, th>>

\* database.py:156-166
CallGetMoodEntries ==
    /\ \E user_id \in 1..3 :
        StoreCall("get_mood_entries", user_id, get_mood_entries(user_id, 30))
    /\ UNCHANGED <<config, current_api_key_index, tables, now, session, th>>

\* database.py:168-204
CallGetMoodStats ==
    /\ \E user_id \in 1..3 :
        StoreCall("get_mood_stats", user_id, <<get_mood_stats(user_id)>>)
    /\ UNCHANGED <<config, current_api_key_index, tables, now, session, th>>

\* database.py:208-217
CallAddChatMessage ==
    /\ ChatRoom(1)
    /\ \E user_id \in 1..2 :
        /\ add_chat_message(user_id, "user", <<"H", "i">>)
        /\ StoreCall("add_chat_message", user_id, <<>>)
    /\ UNCHANGED <<config, current_api_key_index, users, user_settings, mood_entries,
                   now, session, th>>

\* database.py:219-229
CallGetChatHistory ==
    /\ \E user_id \in 1..3 :
        StoreCall("get_chat_history", user_id, get_chat_history(user_id, 50))
    /\ UNCHANGED <<config, current_api_key_index, tables, now, session, th>>

\* database.py:231-237
CallClearChatHistory ==
    /\ \E user_id \in 1..3 :
        /\ clear_chat_history(user_id)
        /\ StoreCall("clear_chat_history", user_id, <<>>)
    /\ UNCHANGED <<config, current_api_key_index, users, user_settings, mood_entries,
                   sqlite_sequence, now, session, th>>

\* database.py:239-249
CallGetRecentMessages ==
    /\ \E user_id \in 1..3 :
        StoreCall("get_recent_messages", user_id, get_recent_messages(user_id, 10))
    /\ UNCHANGED <<config, current_api_key_index, tables, now, session, th>>

\* database.py:253-260
CallGetUserSettings ==
    /\ \E user_id \in 1..3 :
        StoreCall("get_user_settings", user_id, <<get_user_settings(user_id)>>)
    /\ UNCHANGED <<config, current_api_key_index, tables, now, session, th>>

\* database.py:262-284
CallUpdateUserSettings ==
    /\ \E user_id \in 1..3 :
        /\ update_user_settings(user_id, [theme |-> <<"light">>, notifications |-> <<>>])
        /\ StoreCall("update_user_settings", user_id, <<>>)
    /\ UNCHANGED <<config, current_api_key_index, users, mood_entries, chat_messages,
                   sqlite_sequence, now, session, th>>

\* The client has the response; its next request may start.
Receive(c) ==
    /\ th[c].pc = "done"
    /\ th' = [th EXCEPT ![c] = IdleThread]
    /\ UNCHANGED <<config, current_api_key_index, tables, now, session, call>>

\* The fallback responder applied to an argument.
ApplyFallback ==
    /\ call.pc = "called"
    /\ call' = [call EXCEPT !.pc = "returned", !.result = get_simple_response(call.message)]
    /\ UNCHANGED <<config, current_api_key_index, tables, now, session, th>>

\* get_mood_stats applied to a user.
ApplyStats ==
    /\ call.pc = "called"
    /\ call' = [call EXCEPT !.pc = "returned", !.result = get_mood_stats(call.user_id)]
    /\ UNCHANGED <<config, current_api_key_index, tables, now, session, th>>

\* ---------------------------------------------------------- specifications

FALLBACK_INPUTS ==
    VOCABULARY \cup {a \o <<" ">> \o b : a \in VOCABULARY, b \in VOCABULARY}
    \cup FALLBACK_EXAMPLES

\* The state after the module is loaded and init_db() has run on an empty
\* database: app.py:16-38, database.py:14-69.
Init ==
    /\ AI_AVAILABLE \in BOOLEAN
    /\ API_KEYS \in { <<k1, k2>> : k1 \in {<<>>, KEY_1}, k2 \in {<<>>, KEY_2} }
    /\ current_api_key_index = 0
    /\ users = <<>>
    /\ user_settings = <<>>
    /\ mood_entries = <<>>
    /\ chat_messages = <<>>
    /\ sqlite_sequence = [users |-> 0, user_settings |-> 0, mood_entries |-> 0,
                          chat_messages |-> 0]
    /\ now = 0
    /\ session = [c \in Clients |-> {}]
    /\ th = [c \in Clients |-> IdleThread]
    /\ call \in [pc : {"none"}, message : {<<>>}, result : {<<>>}]

\* The steps of the requests both flows share.
Account(c) ==
    \/ Register(c)
    \/ RegisterWelcome(c)
    \/ Login(c)
    \/ Logout(c)
    \/ Receive(c)

Resolver(c) ==
    \/ AttemptBlank(c)
    \/ Configure(c)
    \/ Generate(c)
    \/ Exhausted(c)

Chat(c) ==
    \/ ApiChat(c)
    \/ PersistUser(c)
    \/ PersistAssistant(c)
    \/ ApiChatClear(c)
    \/ ClearWelcome(c)

Guest(c) ==
    \/ ApiChatGuest(c)
    \/ GuestGenerate(c)

\* One browser, one request at a time: accounts and the chat.
Next ==
    \/ Tick
    \/ Account("c1")
    \/ Resolver("c1")
    \/ Chat("c1")

Spec == Init /\ [][Next]_vars

\* One browser, one request at a time, in a deployment with the first credential
\* set and the second unset: registration and the mood journal.
InitMood ==
    /\ Init
    /\ API_KEYS = <<KEY_1, <<>> >>

NextMood ==
    \/ Register("c1")
    \/ RegisterWelcome("c1")
    \/ Receive("c1")
    \/ Resolver("c1")
    \/ ApiMood("c1")

SpecMood == InitMood /\ [][NextMood]_vars

\* One browser, one request at a time: accounts and the chat of a guest.
NextGuest ==
    \/ Tick
    \/ Account("c1")
    \/ Guest("c1")

SpecGuest == Init /\ [][NextGuest]_vars

\* Two browsers of one user whose chat requests interleave. The state is the
\* one Init leads to, in a deployment with the first credential set and the
\* second unset, once the user has registered in the first browser
\* (Register, RegisterWelcome, Receive) and logged in in the second (Login,
\* Receive). The requests are followed while they talk to the remote service
\* and write their rows; AttemptBlank and Exhausted, which write no row, are
\* steps of Spec only.
InitConc ==
    /\ AI_AVAILABLE = TRUE
    /\ API_KEYS = <<KEY_1, <<>> >>
    /\ current_api_key_index = 0
    /\ \E name \in {n \in NAME_INPUTS : Len(strip(n)) >= 2},
          password \in {p \in PASSWORD_INPUTS : Len(p) >= 4} :
        /\ users = <<[id |-> 1, username |-> strip(name),
                      password |-> generate_password_hash(password), email |-> NULL,
                      avatar_color |-> "#64C4ED"]>>
        /\ chat_messages = <<[id |-> 1, user_id |-> 1, role |-> "assistant",
                              content |-> WELCOME_PREFIX \o strip(name) \o WELCOME_SUFFIX,
                              created_at |-> 0]>>
    /\ user_settings = <<[id |-> 1, user_id |-> 1, theme |-> "dark", notifications |-> 1]>>
    /\ mood_entries = <<>>
    /\ sqlite_sequence = [users |-> 1, user_settings |-> 1, mood_entries |-> 0,
                          chat_messages |-> 1]
    /\ now = 0
    /\ session = [c \in Clients |-> {1}]
    /\ th = [c \in Clients |-> IdleThread]
    /\ call \in [pc : {"none"}, message : {<<>>}, result : {<<>>}]

NextConc ==
    \/ Tick
    \/ \E c \in Clients : Receive(c) \/ Configure(c) \/ Generate(c)
    \/ \E c \in Clients : ApiChat(c) \/ PersistUser(c) \/ PersistAssistant(c)

SpecConc == InitConc /\ [][NextConc]_vars

\* A logged-in browser and an anonymous one, in a deployment with the first
\* credential set and the second unset. The first sends chat messages and mood
\* entries (the mood 3 or none, without a note), the second chats as a guest
\* (its /api/chat is redirected); the steps of their requests interleave, so
\* that a guest request reads the cursor while get_ai_response moves it.
InitRotate ==
    /\ AI_AVAILABLE = TRUE
    /\ API_KEYS = <<KEY_1, <<>> >>
    /\ current_api_key_index = 0
    /\ users = <<[id |-> 1, username |-> <<"A", "n">>,
                  password |-> generate_password_hash(<<"1", "2", "3", "4">>),
                  email |-> NULL, avatar_color |-> "#64C4ED"]>>
    /\ chat_messages = <<[id |-> 1, user_id |-> 1, role |-> "assistant",
                          content |-> WELCOME_PREFIX \o <<"A", "n">> \o WELCOME_SUFFIX,
                          created_at |-> 0]>>
    /\ user_settings = <<[id |-> 1, user_id |-> 1, theme |-> "dark", notifications |-> 1]>>
    /\ mood_entries = <<>>
    /\ sqlite_sequence = [users |-> 1, user_settings |-> 1, mood_entries |-> 0,
                          chat_messages |-> 1]
    /\ now = 0
    /\ session = [c \in Clients |-> IF c = "c1" THEN {1} ELSE {}]
    /\ th = [c \in Clients |-> IdleThread]
    /\ call \in [pc : {"none"}, message : {<<>>}, result : {<<>>}]

NextRotate ==
    \/ \E c \in Clients : Receive(c) \/ Resolver(c)
    \/ \E c \in Clients : ApiChat(c) \/ PersistUser(c) \/ PersistAssistant(c)
    \/ /\ ApiMood("c1")
       /\ th'["c1"].mood_value \in {[type |-> "number", num |-> 3], [type |-> "null", num |-> 0]}
       /\ th'["c1"].note = <<>>
    \/ Guest("c2")

SpecRotate == InitRotate /\ [][NextRotate]_vars

\* The fallback responder on each of its inputs, in a process that runs
\* without the remote service.
InitFallback ==
    /\ AI_AVAILABLE = FALSE
    /\ API_KEYS = << <<>>, <<>> >>
    /\ current_api_key_index = 0
    /\ users = <<>>
    /\ user_settings = <<>>
    /\ mood_entries = <<>>
    /\ chat_messages = <<>>
    /\ sqlite_sequence = [users |-> 0, user_settings |-> 0, mood_entries |-> 0,
                          chat_messages |-> 0]
    /\ now = 0
    /\ session = [c \in Clients |-> {}]
    /\ th = [c \in Clients |-> IdleThread]
    /\ call \in [pc : {"called"}, message : FALLBACK_INPUTS, result : {<<>>}]

NextFallback == ApplyFallback

SpecFallback == InitFallback /\ [][NextFallback]_vars


\* One browser, one request at a time: accounts, profile updates and calls of
\* update_user_settings.
NextProfile ==
    \/ Account("c1")
    \/ ApiUpdateProfile("c1")
    \/ UpdateUserSettings

SpecProfile == Init /\ [][NextProfile]_vars

\* get_mood_stats on each journal of at most MaxStatsRows entries that two
\* registered users (and a user without entries) can have written.
InitStats ==
    /\ AI_AVAILABLE = FALSE
    /\ API_KEYS = << <<>>, <<>> >>
    /\ current_api_key_index = 0
    /\ users = [i \in 1..2 |->
                  [id |-> i, username |-> IF i = 1 THEN <<"A", "n">> ELSE <<"B", "o">>,
                   password |-> generate_password_hash(<<"1", "2", "3", "4">>),
                   email |-> NULL, avatar_color |-> "#64C4ED"]]
    /\ user_settings = [i \in 1..2 |->
                          [id |-> i, user_id |-> i, theme |-> "dark", notifications |-> 1]]
    /\ chat_messages = [i \in 1..2 |->
                          [id |-> i, user_id |-> i, role |-> "assistant",
                           content |-> WELCOME_PREFIX \o users[i].username \o WELCOME_SUFFIX,
                           created_at |-> 0]]
    /\ \E n \in 0..MaxStatsRows :
        \E journal \in [1..n -> [user_id : 1..2, mood : 1..5]] :
            /\ mood_entries = [i \in 1..n |->
                   [id |-> i, user_id |-> journal[i].user_id, mood |-> journal[i].mood,
                    note |-> <<>>, ai_insight |-> AI_UNAVAILABLE_TEXT, created_at |-> 0]]
            /\ sqlite_sequence = [users |-> 2, user_settings |-> 2, mood_entries |-> n,
                                  chat_messages |-> 2]
    /\ now = 0
    /\ session = [c \in Clients |-> {}]
    /\ th = [c \in Clients |-> IdleThread]
    /\ call \in [pc : {"called"}, user_id : 1..3, result : {<<>>}]

NextStats == ApplyStats

SpecStats == InitStats /\ [][NextStats]_vars

\* The functions of database.py on the database of two registered users,
\* each with the greeting row of a registration.
InitStore ==
    /\ AI_AVAILABLE = FALSE
    /\ API_KEYS = << <<>>, <<>> >>
    /\ current_api_key_index = 0
    /\ users = [i \in 1..2 |->
                  [id |-> i, username |-> IF i = 1 THEN <<"A", "n">> ELSE <<"B", "o">>,
                   password |-> generate_password_hash(<<"1", "2", "3", "4">>),
                   email |-> NULL, avatar_color |-> "#64C4ED"]]
    /\ user_settings = [i \in 1..2 |->
                          [id |-> i, user_id |-> i, theme |-> "dark", notifications |-> 1]]
    /\ chat_messages = [i \in 1..2 |->
                          [id |-> i, user_id |-> i, role |-> "assistant",
                           content |-> WELCOME_PREFIX \o users[i].username \o WELCOME_SUFFIX,
                           created_at |-> 0]]
    /\ mood_entries = <<>>
    /\ sqlite_sequence = [users |-> 2, user_settings |-> 2, mood_entries |-> 0,
                          chat_messages |-> 2]
    /\ now = 0
    /\ session = [c \in Clients |-> {}]
    /\ th = [c \in Clients |-> IdleThread]
    /\ call = [op |-> "none", user_id |-> 0, result |-> <<>>]

NextStore ==
    \/ CallAddMoodEntry
    \/ CallGetMoodEntries
    \/ CallGetMoodStats
    \/ CallAddChatMessage
    \/ CallGetChatHistory
    \/ CallClearChatHistory
    \/ CallGetRecentMessages
    \/ CallGetUserSettings
    \/ CallUpdateUserSettings

SpecStore == InitStore /\ [][NextStore]_vars

\* ------------------------------------------------------------------ claims

\* A request of client c has returned from handler.
Finished(c, handler) == th[c].pc = "done" /\ th[c].handler = handler

\* The rows of a user in chat_messages, in the order of their creation.
RowsOf(user_id) == SelectSeq(chat_messages, LAMBDA m : m.user_id = user_id)

\* The ids users holds.
UserIds == {users[i].id : i \in 1..Len(users)}

\* (role, content) of each row
RoleAndContent(rows) ==
    [i \in 1..Len(rows) |-> [role |-> rows[i].role, content |-> rows[i].content]]

\* The last n elements of s.
LastOf(s, n) == SubSeq(s, IF Len(s) > n THEN Len(s) - n + 1 ELSE 1, Len(s))

\* C1: when AI_AVAILABLE is false, get_ai_response returns
\* get_simple_response(message): an authenticated chat turn that is answered is
\* answered with the fallback responder's text for the submitted message.
C1_DisabledChatAnswersWithFallback ==
    \A c \in Clients :
        (~AI_AVAILABLE /\ Finished(c, "chat") /\ th[c].response.success)
            => th[c].response.response = get_simple_response(th[c].message)

\* The numeric value of a JSON mood lies in 1..5 (true counts as 1, as in Python).
InsideMoodRange(v) == v.type \in {"number", "boolean"} /\ v.num >= 1 /\ v.num <= 5

C2_EveryStoredMoodInRange ==
    \A i \in 1..Len(mood_entries) : mood_entries[i].mood >= 1 /\ mood_entries[i].mood <= 5

C2_AnswerMatchesRange ==
    \A c \in Clients :
        (Finished(c, "mood") /\ th[c].user_id # 0) =>
            IF InsideMoodRange(th[c].mood_value)
            THEN /\ th[c].response.success
                 /\ th[c].response.entry_id = Len(mood_entries)
                 /\ mood_entries[Len(mood_entries)].id = th[c].response.entry_id
                 /\ mood_entries[Len(mood_entries)].mood = th[c].mood_value.num
                 /\ mood_entries[Len(mood_entries)].user_id = th[c].user_id
            ELSE /\ ~th[c].response.success
                 /\ th[c].response.message = MSG_CHOOSE_MOOD

C2_RowsWrittenOnlyOnSuccess ==
    \A c \in Clients :
        (th'[c] # th[c] /\ th'[c].pc = "done" /\ th'[c].handler = "mood") =>
            IF th'[c].response.success
            THEN /\ Len(mood_entries') = Len(mood_entries) + 1
                 /\ SubSeq(mood_entries', 1, Len(mood_entries)) = mood_entries
            ELSE mood_entries' = mood_entries

\* C2: a mood submission with a value in 1..5 succeeds and stores one entry
\* holding it; a submission with any other value (0, 6, null, a string, false)
\* is rejected with the validation message and writes no row; every stored
\* entry has its mood in 1..5.
C2_MoodRange ==
    /\ [](C2_EveryStoredMoodInRange /\ C2_AnswerMatchesRange)
    /\ [][C2_RowsWrittenOnlyOnSuccess]_vars

\* C2, its case: the value 5 has been submitted and stored.
C2_Witness ==
    \E c \in Clients :
        /\ Finished(c, "mood")
        /\ th[c].mood_value = [type |-> "number", num |-> 5]
        /\ th[c].response.success
        /\ Len(mood_entries) = 1
        /\ mood_entries[1].mood = 5

\* C3: when api_chat_clear has completed, the history of the user holds one
\* row, the fresh greeting with role assistant, and the rows of the other
\* users are the ones they had.
C3_ClearLeavesOneGreeting ==
    \A c \in Clients :
        (Finished(c, "clear") /\ th[c].user_id # 0) =>
            LET history == get_chat_history(th[c].user_id, 50)
            IN  /\ Len(history) = 1
                /\ history[1].role = "assistant"
                /\ history[1].content = CLEARED_PREFIX \o th[c].username \o CLEARED_SUFFIX
                /\ RowsOf(th[c].user_id) = history
                /\ SelectSeq(chat_messages, LAMBDA m : m.user_id # th[c].user_id)
                     = SelectSeq(th[c].chat_before, LAMBDA m : m.user_id # th[c].user_id)

\* C3, its case: a clear has completed for a user who had a row, while another
\* user had one too.
C3_Witness ==
    \E c \in Clients :
        /\ Finished(c, "clear")
        /\ th[c].user_id # 0
        /\ \E i, j \in 1..Len(th[c].chat_before) :
              /\ th[c].chat_before[i].user_id = th[c].user_id
              /\ th[c].chat_before[j].user_id # th[c].user_id
        /\ Len(chat_messages) = 2

C4_DuplicateRegistrationStep ==
    \A c \in Clients :
        (/\ th[c].pc = "idle"
         /\ th'[c].handler = "register"
         /\ \E i \in 1..Len(users) : users[i].username = th'[c].username)
        => /\ th'[c].pc = "done"
           /\ ~th'[c].response.success
           /\ th'[c].response.message
                \in {MSG_NAME_TAKEN, MSG_PASSWORD_TOO_SHORT, MSG_PASSWORDS_DIFFER}
           /\ users' = users
           /\ user_settings' = user_settings
           /\ session' = session

C4_TakenOnlyForDuplicates ==
    \A c \in Clients :
        (Finished(c, "register") /\ th[c].response.message = MSG_NAME_TAKEN) =>
            /\ ~th[c].response.success
            /\ \E i \in 1..Len(users) : users[i].username = th[c].username

C4_UsernamesDiffer ==
    \A i, j \in 1..Len(users) : users[i].username = users[j].username => i = j

\* C4: a registration under a name that a row of users holds is answered with
\* success=false (with the name-taken message once the passwords pass their
\* checks), adds no row to users or user_settings, leaves every user row as it
\* was and does not bind the session; no two rows of users share a name.
C4_DuplicateUsername ==
    /\ [](C4_TakenOnlyForDuplicates /\ C4_UsernamesDiffer)
    /\ [][C4_DuplicateRegistrationStep]_vars

\* C4, its case: a registration has been refused because the name was taken.
C4_Witness ==
    \E c \in Clients :
        /\ Finished(c, "register")
        /\ th[c].response.message = MSG_NAME_TAKEN
        /\ Len(users) = 1
        /\ users[1].username = th[c].username

\* C5: for every user, get_chat_history returns the rows of the user in
\* non-decreasing created_at order, and in the order of their creation (by
\* increasing id, each row of the user once), also when the requests of two
\* browsers interleave their writes and when rows share a created_at.
C5_HistoryInCreationOrder ==
    \A user_id \in UserIds :
        LET history == get_chat_history(user_id, 50)
        IN  /\ \A i, j \in 1..Len(history) :
                  i < j => /\ history[i].created_at <= history[j].created_at
                           /\ history[i].id < history[j].id
            /\ history = RowsOf(user_id)

\* C5, its case: the user messages of two requests were written one after the
\* other in the same second, after a row of an earlier second.
C5_Witness ==
    \E i \in 1..Len(chat_messages) - 1 :
        /\ chat_messages[i].role = "user"
        /\ chat_messages[i + 1].role = "user"
        /\ chat_messages[i].user_id = chat_messages[i + 1].user_id
        /\ chat_messages[i].created_at = chat_messages[i + 1].created_at
        /\ chat_messages[1].created_at < chat_messages[i].created_at
        /\ chat_messages[1].user_id = chat_messages[i].user_id

\* C6: for every user and N, get_recent_messages(user, N) is (role, content) of
\* the last N rows get_chat_history returns, in the same order.
C6_RecentIsTailOfHistory ==
    \A user_id \in UserIds :
        \A N \in {2, 15} :
            get_recent_messages(user_id, N)
                = RoleAndContent(LastOf(get_chat_history(user_id, 50), N))

\* C7: an authenticated chat turn whose remote call returned a text answers
\* with that text trimmed, and has appended to chat_messages two rows of the
\* user: the submitted message with role user, then the answer with role
\* assistant.
C7_SuccessPersistsTurn ==
    \A c \in Clients :
        (Finished(c, "chat") /\ th[c].accepted) =>
            LET n == Len(th[c].chat_before)
                reply == th[c].response.response
            IN  /\ th[c].response.success
                /\ reply = <<>> \/ (reply[1] \notin WHITESPACE /\ reply[Len(reply)] \notin WHITESPACE)
                /\ Len(chat_messages) = n + 2
                /\ SubSeq(chat_messages, 1, n) = th[c].chat_before
                /\ chat_messages[n + 1].user_id = th[c].user_id
                /\ chat_messages[n + 1].role = "user"
                /\ chat_messages[n + 1].content = th[c].message
                /\ chat_messages[n + 2].user_id = th[c].user_id
                /\ chat_messages[n + 2].role = "assistant"
                /\ chat_messages[n + 2].content = reply
                /\ chat_messages[n + 1].id < chat_messages[n + 2].id

\* C7, its case: the remote service answered with a text wrapped in whitespace.
C7_Witness ==
    \E c \in Clients :
        /\ Finished(c, "chat")
        /\ th[c].accepted
        /\ th[c].response.response # <<>>
        /\ \E text \in REMOTE_TEXTS :
              text # th[c].response.response /\ strip(text) = th[c].response.response
        /\ Len(chat_messages) = 3

\* C8: with the remote service available, an authenticated chat turn none of
\* whose remote calls returned a text (blank credentials, genai.configure
\* raising, every model failing or returning nothing) is answered with
\* success and get_simple_response(message), and writes no row.
C8_FailuresEndInFallback ==
    \A c \in Clients :
        (/\ AI_AVAILABLE
         /\ Finished(c, "chat")
         /\ th[c].user_id # 0
         /\ th[c].message # <<>>
         /\ ~th[c].accepted)
        => /\ th[c].response = JsonChat(get_simple_response(th[c].message))
           /\ chat_messages = th[c].chat_before

\* C8, its case: genai.configure returned and every model of models_to_try
\* failed, for both attempts.
C8_Witness ==
    \E c \in Clients :
        /\ AI_AVAILABLE
        /\ Finished(c, "chat")
        /\ ~th[c].accepted
        /\ th[c].response.success
        /\ Len(th[c].calls) = 2 * (1 + Len(models_to_try))

\* C9: get_simple_response returns a non-empty text for every message, and the
\* same text for messages that are equal once lower-cased.
C9_FallbackTotalAndCaseBlind ==
    call.pc = "returned" =>
        /\ Len(call.result) > 0
        /\ call.result = get_simple_response(call.message)
        /\ \A other \in FALLBACK_INPUTS :
              lower(other) = lower(call.message) => get_simple_response(other) = call.result

\* C9, its case: a message with a capital letter was answered by a keyword rule.
C9_Witness ==
    /\ call.pc = "returned"
    /\ lower(call.message) # call.message
    /\ call.result # RESPONSE_DEFAULT

\* advance applied n times
RECURSIVE AdvanceTimes(_, _)
AdvanceTimes(index, n) == IF n = 0 THEN index ELSE AdvanceTimes(advance(index), n - 1)

\* C10: from every position of the cursor, Len(API_KEYS) advances lead back to
\* it; a call of get_ai_response that has moved the cursor Len(API_KEYS) times
\* has it where the call found it.
C10_FullRotationReturns ==
    /\ \A index \in 0..(Len(API_KEYS) - 1) : AdvanceTimes(index, Len(API_KEYS)) = index
    /\ \A c \in Clients :
          th[c].advances = Len(API_KEYS) => current_api_key_index = th[c].index0

\* C10, its case: a call that found the cursor at the second credential has
\* moved it twice.
C10_Witness ==
    \E c \in Clients :
        /\ th[c].index0 = 1
        /\ th[c].advances = Len(API_KEYS)

C11_CursorInRange ==
    /\ current_api_key_index >= 0
    /\ current_api_key_index < Len(API_KEYS)

C11_KeysKept == API_KEYS' = API_KEYS

C12_RegistrationSeedsGreeting ==
    \A c \in Clients :
        (Finished(c, "register") /\ th[c].response.success) =>
            LET history == get_chat_history(th[c].user_id, 50)
            IN  /\ session[c] = {th[c].user_id}
                /\ users[Len(users)].id = th[c].user_id
                /\ users[Len(users)].username = th[c].username
                /\ Len(history) = 1
                /\ history[1].role = "assistant"
                /\ history[1].content = WELCOME_PREFIX \o th[c].username \o WELCOME_SUFFIX
                /\ history[1].user_id = th[c].user_id

\* C12, its case: a second user has registered while the first has chat rows.
C12_Witness ==
    \E c \in Clients :
        /\ Finished(c, "register")
        /\ th[c].response.success
        /\ Len(users) = 2
        /\ th[c].user_id = 2
        /\ Len(chat_messages) = 2

\* The entry an accepted submission has stored: the last row of mood_entries
\* holds the user, the mood, the note and the insight returned to the caller.
C13_EntryMatchesSubmission ==
    \A c \in Clients :
        (Finished(c, "mood") /\ th[c].response.success) =>
            LET entry == mood_entries[Len(mood_entries)]
            IN  /\ entry.id = th[c].response.entry_id
                /\ entry.user_id = th[c].user_id
                /\ entry.mood = th[c].mood_value.num
                /\ entry.note = th[c].note
                /\ entry.ai_insight = th[c].response.ai_insight

\* C13: every accepted mood submission stores one entry with the submitted
\* mood and note whose insight is the one returned to the caller and is a
\* non-empty text, whatever the remote service answers.
C13_InsightStoredAndNonEmpty ==
    /\ C13_EntryMatchesSubmission
    /\ \A c \in Clients :
          (Finished(c, "mood") /\ th[c].response.success) =>
              th[c].response.ai_insight # <<>>

C14_GuestStepKeepsTables ==
    \A c \in Clients :
        (th'[c] # th[c] /\ th'[c].handler = "guest") =>
            /\ users' = users
            /\ user_settings' = user_settings
            /\ mood_entries' = mood_entries
            /\ chat_messages' = chat_messages
            /\ sqlite_sequence' = sqlite_sequence

\* C14: no step of api_chat_guest changes users, user_settings, mood_entries
\* or chat_messages (nor the AUTOINCREMENT counters), whatever the message,
\* the history sent along and the outcome of the remote call.
C14_GuestNeverPersisted == [][C14_GuestStepKeepsTables]_vars

\* C14, its case: a guest who sent a history has been answered by the remote
\* service while the tables hold rows of a registered user.
C14_Witness ==
    \E c \in Clients :
        /\ Finished(c, "guest")
        /\ th[c].accepted
        /\ th[c].history # <<>>
        /\ th[c].response.response # <<>>
        /\ Len(users) = 1
        /\ Len(chat_messages) = 1

\* The number of entries of a user with a mood.
CountMood(user_id, mood) ==
    Cardinality({i \in 1..Len(mood_entries) :
                    mood_entries[i].user_id = user_id /\ mood_entries[i].mood = mood})

\* C15: get_mood_stats(user) returns as total the number of the entries of
\* that user and as average the mean of their moods rounded to the nearest
\* hundredth (no hundredth is nearer), counting no entry of another user;
\* without entries both are 0.
C15_AverageIsRoundedMean ==
    call.pc = "returned" =>
        LET total == CountMood(call.user_id, 1) + CountMood(call.user_id, 2)
                       + CountMood(call.user_id, 3) + CountMood(call.user_id, 4)
                       + CountMood(call.user_id, 5)
            sum == 1 * CountMood(call.user_id, 1) + 2 * CountMood(call.user_id, 2)
                     + 3 * CountMood(call.user_id, 3) + 4 * CountMood(call.user_id, 4)
                     + 5 * CountMood(call.user_id, 5)
            off == 100 * sum - total * call.result.average
        IN  /\ call.result.total = total
            /\ total = 0 => call.result.average = 0
            /\ total > 0 => (2 * off <= total /\ -2 * off <= total)

\* C15, its case: the mean of the three entries of a user, 4/3, was returned
\* as 1.33.
C15_Witness ==
    /\ call.pc = "returned"
    /\ call.result.total = 3
    /\ call.result.average = 133
    /\ call.result.distribution = (1 :> 2) @@ (2 :> 1)

\* C16: in every state reached by registrations (accepted or refused),
\* profile updates and settings updates, each row of users has exactly one row
\* of user_settings and each row of user_settings belongs to a row of users.
C16_OneSettingsRowPerUser ==
    /\ \A i \in 1..Len(users) :
          Cardinality({j \in 1..Len(user_settings) :
                          user_settings[j].user_id = users[i].id}) = 1
    /\ \A j \in 1..Len(user_settings) :
          \E i \in 1..Len(users) : users[i].id = user_settings[j].user_id
    /\ Len(users) = Len(user_settings)

\* C16, its case: two users are registered, a registration has been refused,
\* a profile and a settings row have been updated.
C16_Witness ==
    /\ Len(users) = 2
    /\ \E i \in 1..Len(users) : users[i].email # NULL
    /\ \E j \in 1..Len(user_settings) : user_settings[j].theme = "light"
    /\ \E c \in Clients :
          Finished(c, "register") /\ th[c].response.message = MSG_NAME_TAKEN

\* C17: within one get_ai_response call every failed attempt (a blank
\* credential, genai.configure raising, or no model under the credential
\* giving a text) moves the cursor by one slot before the next attempt: at the
\* head of the loop the cursor is as many slots past its value at entry as
\* attempts have been spent, and no credential is configured twice in one call.
\* Violated: when configure returns and every model fails, app.py:138-140
\* swallows the errors and the loop goes on without line 148.
C17_FailedAttemptAdvances ==
    \A c \in Clients :
        /\ th[c].pc = "attempt" =>
              current_api_key_index = AdvanceTimes(th[c].index0, th[c].attempt)
        /\ \A i, j \in 1..Len(th[c].calls) :
              (i < j /\ th[c].calls[i].model = 0 /\ th[c].calls[j].model = 0)
                 => th[c].calls[i].key # th[c].calls[j].key

\* C18, the states: no remote call is ever logged under a blank credential,
\* and a call spends at most 2 attempts.
C18_NoCallWithBlank ==
    \A c \in Clients :
        /\ th[c].attempt <= 2
        /\ \A i \in 1..Len(th[c].calls) : API_KEYS[th[c].calls[i].key + 1] # <<>>

\* C18, the step taken at the head of the loop when the credential at the
\* cursor is blank: the cursor moves one slot on (mod the list length), one
\* attempt of the budget is spent, nothing is added to the log of remote calls,
\* nothing is stored, and the call is again at the head of the loop.
C18_BlankStep ==
    \A c \in Clients :
        (/\ th[c].pc = "attempt"
         /\ th[c].attempt < 2
         /\ API_KEYS[current_api_key_index + 1] = <<>>
         /\ th'[c] # th[c])
        => /\ current_api_key_index' = (current_api_key_index + 1) % Len(API_KEYS)
           /\ th'[c].calls = th[c].calls
           /\ th'[c].attempt = th[c].attempt + 1
           /\ th'[c].pc = "attempt"
           /\ tables' = tables

\* C18: a blank credential is skipped without a remote call, the cursor moves
\* to the next slot and the loop continues within its budget of 2 attempts.
C18_BlankIsSkipped ==
    /\ []C18_NoCallWithBlank
    /\ [][C18_BlankStep]_vars

\* C18, its case: the first credential was blank and skipped, and the second
\* one has been configured in the same call.
C18_Witness ==
    \E c \in Clients :
        /\ API_KEYS[1] = <<>>
        /\ th[c].index0 = 0
        /\ th[c].pc = "generate"
        /\ th[c].attempt = 1
        /\ th[c].calls = <<[key |-> 1, model |-> 0]>>

\* C19, the log of one call: after each genai.configure the models are asked
\* in the order of models_to_try, each one directly after its predecessor and
\* under the credential configured.
C19_ModelsInListOrder ==
    \A c \in Clients : \A i \in 1..Len(th[c].calls) :
        /\ th[c].calls[i].model \in 0..Len(models_to_try)
        /\ th[c].calls[i].model >= 1 =>
              /\ i > 1
              /\ th[c].calls[i - 1].model = th[c].calls[i].model - 1
              /\ th[c].calls[i - 1].key = th[c].calls[i].key
        /\ (th[c].calls[i].model = 0 /\ i > 1) =>
              \/ th[c].calls[i - 1].model = 0
              \/ th[c].calls[i - 1].model = Len(models_to_try)

\* C19, the answer: a chat request that a model answered returns the text of
\* the last model asked, stripped, and every model asked before it in the call
\* failed.
C19_AnswerIsAcceptedText ==
    \A c \in Clients :
        /\ th[c].accepted =>
              /\ th[c].ai_response \in {strip(r) : r \in REMOTE_TEXTS}
              /\ th[c].calls # <<>>
              /\ th[c].calls[Len(th[c].calls)].model >= 1
        /\ (Finished(c, "chat") /\ th[c].accepted) =>
              th[c].response = JsonChat(th[c].ai_response)

\* C19, one model asked: the call is logged; a text is accepted at once; an
\* error or an empty response leaves the cursor alone and goes to the next
\* model of the list, or back to the head of the credentials loop after the
\* last one. After the accepted response nothing more is called.
C19_ModelStep ==
    \A c \in Clients :
        /\ (th[c].pc = "generate" /\ th'[c] # th[c]) =>
              /\ th'[c].calls = Append(th[c].calls,
                     [key |-> current_api_key_index, model |-> th[c].model])
              /\ current_api_key_index' = current_api_key_index
              /\ \/ th'[c].accepted /\ th'[c].pc \notin {"generate", "attempt"}
                 \/ /\ ~th'[c].accepted
                    /\ th[c].model < 3
                    /\ th'[c].pc = "generate"
                    /\ th'[c].model = th[c].model + 1
                    /\ th'[c].attempt = th[c].attempt
                 \/ /\ ~th'[c].accepted
                    /\ th[c].model = 3
                    /\ th'[c].pc = "attempt"
                    /\ th'[c].attempt = th[c].attempt + 1
        /\ (th[c].accepted /\ th'[c] # IdleThread) =>
              /\ th'[c].calls = th[c].calls
              /\ th'[c].accepted
              /\ th'[c].ai_response = th[c].ai_response

\* C19: under a usable credential the models are tried in list order, the
\* first text returned is the answer, a failing model only leads to the next
\* one, and nothing is called after the accepted response.
C19_FirstAnsweringModelWins ==
    /\ []C19_ModelsInListOrder
    /\ []C19_AnswerIsAcceptedText
    /\ [][C19_ModelStep]_vars

\* C19, its case: under the first credential the first model failed, the
\* second answered, and the chat request returned that answer.
C19_Witness ==
    \E c \in Clients :
        /\ Finished(c, "chat")
        /\ th[c].accepted
        /\ th[c].calls = <<[key |-> 0, model |-> 0], [key |-> 0, model |-> 1],
                           [key |-> 0, model |-> 2]>>
        /\ th[c].response = JsonChat(<<"H", "e", "y", "!">>)

\* The rules in the order greeting, self-introduction, negative mood, anxiety,
\* stress, positive mood, gratitude, identity question, sleep difficulty,
\* loneliness, work/study pressure, low motivation, help request.
RulesAsListed ==
    <<
    <<WORDS_GREETING, RESPONSE_GREETING>>,
    <<WORDS_INTRODUCTION, RESPONSE_INTRODUCTION>>,
    <<WORDS_NEGATIVE_MOOD, RESPONSE_NEGATIVE_MOOD>>,
    <<WORDS_ANXIETY, RESPONSE_ANXIETY>>,
    <<WORDS_STRESS, RESPONSE_STRESS>>,
    <<WORDS_POSITIVE_MOOD, RESPONSE_POSITIVE_MOOD>>,
    <<WORDS_GRATITUDE, RESPONSE_GRATITUDE>>,
    <<WORDS_IDENTITY, RESPONSE_IDENTITY>>,
    <<WORDS_SLEEP, RESPONSE_SLEEP>>,
    <<WORDS_LONELINESS, RESPONSE_LONELINESS>>,
    <<WORDS_WORK_STUDY, RESPONSE_WORK_STUDY>>,
    <<WORDS_MOTIVATION, RESPONSE_MOTIVATION>>,
    <<WORDS_HELP, RESPONSE_HELP>>
    >>

\* The rules of RulesAsListed one of whose keywords is a substring of the
\* lower-cased message.
MatchingRules(message) ==
    {i \in 1..Len(RulesAsListed) :
        \E k \in 1..Len(RulesAsListed[i][1]) : Contains(lower(message), RulesAsListed[i][1][k])}

\* C20: get_simple_response returns the response of the first rule, in the
\* listed order, that has a keyword occurring in the lower-cased message, and
\* the generic response exactly when no rule has one.
C20_FirstMatchingRuleWins ==
    call.pc = "returned" =>
        LET matching == MatchingRules(call.message)
        IN  /\ matching # {} =>
                  \E i \in matching :
                      /\ \A j \in matching : i <= j
                      /\ call.result = RulesAsListed[i][2]
            /\ (call.result = RESPONSE_DEFAULT) <=> (matching = {})

\* C20, its case: the message has keywords of two rules with different
\* responses, and the answer is that of the earlier rule.
C20_Witness ==
    /\ call.pc = "returned"
    /\ \E i, j \in MatchingRules(call.message) :
          /\ i < j
          /\ RulesAsListed[i][2] # RulesAsListed[j][2]
          /\ \A k \in MatchingRules(call.message) : i <= k
          /\ call.result = RulesAsListed[i][2]

\* C21: a mood-insight request never loads the user's chat history: while a
\* submission to the mood journal is inside get_ai_response, or has returned
\* from it, the rows read for its prompt are none.
\* Violated: get_ai_response reads get_recent_messages(user_id, 15) for every
\* context_type (app.py:79) and writes the rows into the prompt (app.py:86-88).
C21_MoodLoadsNoHistory ==
    \A c \in Clients :
        th[c].handler = "mood" => th[c].recent_messages = <<>>

\* C22, the steps: no step of a submission to the mood journal adds, changes
\* or removes a row of chat_messages.
C22_MoodStepKeepsChat ==
    \A c \in Clients :
        (th'[c] # th[c] /\ th'[c].handler = "mood") => chat_messages' = chat_messages

\* C22, the states: during and after a submission chat_messages is what it was
\* when the submission arrived, and an accepted submission has its insight in
\* the ai_insight field of the entry it stored.
C22_InsightOnlyInEntry ==
    \A c \in Clients :
        /\ th[c].handler = "mood" => chat_messages = th[c].chat_before
        /\ (Finished(c, "mood") /\ th[c].response.success) =>
              \E i \in 1..Len(mood_entries) :
                  /\ mood_entries[i].id = th[c].response.entry_id
                  /\ mood_entries[i].ai_insight = th[c].response.ai_insight

\* C22: a mood submission never persists chat history, whether its insight
\* is a remote generation or the fallback; the insight is stored as ai_insight
\* of the new entry.
C22_MoodNeverPersistsChat ==
    /\ []C22_InsightOnlyInEntry
    /\ [][C22_MoodStepKeepsChat]_vars

\* C22, its case: a submission whose insight a model generated has been
\* stored, and the chat history of the user is still the greeting alone.
C22_Witness ==
    \E c \in Clients :
        /\ Finished(c, "mood")
        /\ th[c].response.success
        /\ th[c].accepted
        /\ th[c].response.ai_insight # <<>>
        /\ Len(mood_entries) = 1
        /\ Len(chat_messages) = 1

\* The part of C23 about the store: a chat turn of a logged-in user that no
\* model answered has written nothing; chat_messages is what it was when the
\* turn arrived.
C23_UnansweredTurnStoresNothing ==
    \A c \in Clients :
        (/\ Finished(c, "chat")
         /\ th[c].user_id # 0
         /\ th[c].message # <<>>
         /\ ~th[c].accepted)
        => chat_messages = th[c].chat_before

\* C23: an authenticated chat turn that ends in the fallback, with the remote
\* service disabled or with both attempts spent, is answered with the text of
\* get_simple_response and stores neither the message nor the reply.
\* Violated in the disabled case: the answer is the fixed text of app.py:76.
C23_FallbackReturnedNotStored ==
    /\ C23_UnansweredTurnStoresNothing
    /\ \A c \in Clients :
          (/\ Finished(c, "chat")
           /\ th[c].user_id # 0
           /\ th[c].message # <<>>
           /\ ~th[c].accepted)
          => th[c].response = JsonChat(get_simple_response(th[c].message))

\* C24, the states: no two rows of users hold the same username, and a profile
\* update answered with the message of the UNIQUE constraint asked for a name
\* that a row of another user holds.
C24_NamesStayUnique ==
    /\ \A i, j \in 1..Len(users) : i # j => users[i].username # users[j].username
    /\ \A c \in Clients :
          (Finished(c, "profile") /\ th[c].response.message = UNIQUE_FAILED) =>
              /\ ~th[c].response.success
              /\ \E i \in 1..Len(users) :
                    users[i].username = th[c].username /\ users[i].id # th[c].user_id

\* C24, the step: a profile update of a logged-in user that asks for a
\* username held by another user is answered with success=false and leaves
\* every row of users as it was.
C24_TakenRenameStep ==
    \A c \in Clients :
        (/\ th[c].pc = "idle"
         /\ th'[c].handler = "profile"
         /\ LoggedIn(c)
         /\ \E i \in 1..Len(users) :
               users[i].username = th'[c].username /\ users[i].id # SessionUser(c))
        => /\ th'[c].pc = "done"
           /\ th'[c].response.kind = "json"
           /\ ~th'[c].response.success
           /\ users' = users

\* C24: after registrations and profile updates no two users share a
\* username; renaming a user to a username of another user fails with
\* success=false and changes no row of users.
C24_UsernameUnique ==
    /\ []C24_NamesStayUnique
    /\ [][C24_TakenRenameStep]_vars

\* C24, its case: two users are registered, an earlier update has set the
\* e-mail of one, and a rename of that user to the name of the other has been
\* refused.
C24_Witness ==
    \E c \in Clients :
        /\ Finished(c, "profile")
        /\ ~th[c].response.success
        /\ th[c].response.message = UNIQUE_FAILED
        /\ Len(users) = 2
        /\ \E i \in 1..Len(users) : users[i].id = th[c].user_id /\ users[i].email # NULL

\* The rows of a table that a user owns.
OwnedBy(table, user_id) == SelectSeq(table, LAMBDA r : r.user_id = user_id)

\* The elements of a sequence.
Range(s) == {s[i] : i \in 1..Len(s)}

\* C25, the reads: a list of chat messages or mood entries for a user holds
\* the rows of that user and no other row; the recent context holds as many
\* messages as the user has rows, each the role and content of one of them;
\* the statistics count the entries of the user; the settings are the row of
\* the user, or the defaults when the user has none.
C25_ReadsOwnRows ==
    LET u == call.user_id
    IN  /\ call.op = "get_chat_history" =>
              Range(call.result) = Range(OwnedBy(chat_messages, u))
        /\ call.op = "get_mood_entries" =>
              Range(call.result) = Range(OwnedBy(mood_entries, u))
        /\ call.op = "get_recent_messages" =>
              /\ Len(call.result) = Len(OwnedBy(chat_messages, u))
              /\ Range(call.result) \subseteq Range(RoleAndContent(OwnedBy(chat_messages, u)))
        /\ call.op = "get_mood_stats" =>
              /\ call.result[1].total = Len(OwnedBy(mood_entries, u))
              /\ DOMAIN call.result[1].distribution =
                    {e.mood : e \in Range(OwnedBy(mood_entries, u))}
        /\ call.op = "get_user_settings" =>
              IF OwnedBy(user_settings, u) # <<>>
              THEN call.result[1] = OwnedBy(user_settings, u)[1]
              ELSE call.result[1] = [theme |-> "dark", notifications |-> 1]

\* C25, the writes and deletes: a step leaves users alone and, for every user
\* other than the one the function was called for, the mood entries, chat
\* messages and settings that user owns.
C25_WritesOwnRows ==
    /\ users' = users
    /\ \A other \in 1..3 :
          other # call'.user_id =>
              /\ OwnedBy(mood_entries', other) = OwnedBy(mood_entries, other)
              /\ OwnedBy(chat_messages', other) = OwnedBy(chat_messages, other)
              /\ OwnedBy(user_settings', other) = OwnedBy(user_settings, other)

\* C25: a function of database.py called for a user reads and writes only
\* rows that user owns.
C25_OwnRowsOnly ==
    /\ []C25_ReadsOwnRows
    /\ [][C25_WritesOwnRows]_vars

\* C25, its case: the chat history of the first user has just been cleared,
\* and the second user still has the greeting and a message.
C25_Witness ==
    /\ call.op = "clear_chat_history"
    /\ call.user_id = 1
    /\ OwnedBy(chat_messages, 1) = <<>>
    /\ Len(OwnedBy(chat_messages, 2)) = 2
    /\ Len(mood_entries) = 1

\* C26: for every user, each row of role user in the user's chat history that
\* is not its last row (the reply to the last one may still be on its way) is
\* directly followed, in insertion order, by a row of role assistant, also
\* when two chat requests of the user, or a chat and a clear request, overlap.
\* Violated: the two inserts of a turn are two transactions (app.py:133-134,
\* database.py:208-217), and the inserts of another request come between them.
C26_UserRowThenReply ==
    \A user_id \in UserIds :
        LET rows == RowsOf(user_id)
        IN  \A i \in 1..(Len(rows) - 1) :
                rows[i].role = "user" => rows[i + 1].role = "assistant"
====
